---- MODULE Spec2Model ----
(***************************************************************************)
(* Model of action-control: the policy engine (package internal/policy:    *)
(* LoadPolicyConfig, MergeRepoPolicy, CheckActionCompliance), the exporter *)
(* (package internal/export), ActionsForOrg of the GitHub client and the   *)
(* report, enforce and export commands.                                    *)
(*                                                                         *)
(* Strings that the code inspects character by character (action           *)
(* references, repository names) are sequences of one-character strings;   *)
(* policy modes, which the code only compares as a whole, are TLA+ strings.*)
(* A Go slice is a sequence (nil and empty are both <<>>: the code only    *)
(* takes len() and ranges over them), a Go map is a function whose DOMAIN  *)
(* is its key set.                                                         *)
(***************************************************************************)
EXTENDS Integers, Sequences, FiniteSets, TLC

\* Longest observed-actions list handed to CheckActionCompliance.
MaxActions == 2

------------------------------------------------------------------------------
(* The universe of inputs.                                                 *)

\* Action references: unpinned, pinned, pinned to another version, with two
\* '@' signs, and a second action.
ActionRefs ==
    { <<"a">>, <<"a", "@", "1">>, <<"a", "@", "2">>,
      <<"a", "@", "1", "@", "2">>, <<"b">> }

\* Policy lists (allowed_actions / denied_actions).
ActionLists ==
    { <<>>, <<<<"a">>>>, <<<<"a", "@", "1">>, <<"b">>>> }

\* policy_mode values: unset, the two modes, and a string that is neither.
Modes == {"", "allow", "deny", "audit"}

\* Repository full names; the second differs from the first only in case.
RepoNames == { <<"o", "/", "r">>, <<"o", "/", "R">> }

\* The repository the enumerated policies may carry a custom rule for.
CustomRepo == <<"o", "/", "r">>

ExcludedLists ==
    { <<>>, <<<<"o", "/", "r">>>>, <<<<"o", "/", "R">>>> }

\* type Policy struct
Policy ==
    [AllowedActions : ActionLists, DeniedActions : ActionLists, PolicyMode : Modes]

\* CustomRules map[string]Policy
CustomRuleMaps ==
    { << >> } \cup { [k \in {CustomRepo} |-> p] : p \in Policy }

\* type PolicyConfig struct
PolicyConfig ==
    [AllowedActions : ActionLists, DeniedActions : ActionLists,
     ExcludedRepos : ExcludedLists, CustomRules : CustomRuleMaps,
     PolicyMode : Modes]

\* Sequences over S of length at most n.
SeqsUpTo(S, n) == UNION { [1..k -> S] : k \in 0..n }

ObservedLists == SeqsUpTo(ActionRefs, MaxActions)

\* Longest observed-actions list of the checks whose result is compared
\* with the results for other policies.
MaxCompared == 1

ComparedLists == SeqsUpTo(ActionRefs, MaxCompared)

------------------------------------------------------------------------------
(* Pure helpers of policy.go.                                              *)

\* Index of the first '@' of action, or 0 when there is none.
RECURSIVE firstAt(_, _)
firstAt(action, i) ==
    IF i > Len(action) THEN 0
    ELSE IF action[i] = "@" THEN i
    ELSE firstAt(action, i + 1)

\* Index of the last '@' of action, or 0 when there is none.
RECURSIVE lastAt(_, _)
lastAt(action, i) ==
    IF i < 1 THEN 0
    ELSE IF action[i] = "@" THEN i
    ELSE lastAt(action, i - 1)

\* normalizeAction cutting at the last '@' (strings.LastIndex) instead of
\* the first.
normalizeAction_LastAt(action) ==
    LET i == lastAt(action, Len(action))
    IN  IF i = 0 THEN action ELSE SubSeq(action, 1, i - 1)

\* normalizeAction removes version info from action string: the prefix
\* before the first '@'.
normalizeAction(action) ==
    LET i == firstAt(action, 1)
    IN  IF i = 0 THEN action ELSE SubSeq(action, 1, i - 1)

\* contains comparing the normalized entries of the slice with the
\* normalized item.
contains_NormalizedEntries(slice, item) ==
    \E i \in 1..Len(slice) : normalizeAction(slice[i]) = normalizeAction(item)

\* contains checks if a string slice contains a specific string.
RECURSIVE containsFrom(_, _, _)
containsFrom(slice, item, i) ==
    IF i > Len(slice) THEN FALSE
    ELSE IF slice[i] = item THEN TRUE
    ELSE containsFrom(slice, item, i + 1)

contains(slice, item) == containsFrom(slice, item, 1)

\* The exclusion test skipped for a repository that has a custom rule.
isExcluded_UnlessCustomRule(policy_, repo) ==
    /\ repo \notin DOMAIN policy_.CustomRules
    /\ \E i \in 1..Len(policy_.ExcludedRepos) : policy_.ExcludedRepos[i] = repo

\* The exclusion loop of CheckActionCompliance: some entry of ExcludedRepos
\* equals repoName (Go string ==).
isExcluded(policy_, repo) ==
    \E i \in 1..Len(policy_.ExcludedRepos) : policy_.ExcludedRepos[i] = repo

\* applicablePolicy with a custom rule that does not inherit the global mode
\* when its own is unset.
applicablePolicy_NoModeInheritance(policy_, repo) ==
    IF repo \in DOMAIN policy_.CustomRules
    THEN LET customPolicy == policy_.CustomRules[repo]
             mode == customPolicy.PolicyMode
         IN  [ allowedActions |->
                 IF mode = "allow" /\ Len(customPolicy.AllowedActions) = 0
                 THEN policy_.AllowedActions
                 ELSE customPolicy.AllowedActions,
               deniedActions |->
                 IF mode = "deny" /\ Len(customPolicy.DeniedActions) = 0
                 THEN policy_.DeniedActions
                 ELSE customPolicy.DeniedActions,
               policyMode |-> mode ]
    ELSE [ allowedActions |-> policy_.AllowedActions,
           deniedActions |-> policy_.DeniedActions,
           policyMode |-> policy_.PolicyMode ]

\* "Determine which policy to apply (global or custom)": the values of the
\* locals allowedActions, deniedActions and policyMode before the final
\* defaulting of the mode.
applicablePolicy(policy_, repo) ==
    IF repo \in DOMAIN policy_.CustomRules
    THEN LET customPolicy == policy_.CustomRules[repo]
             mode == IF customPolicy.PolicyMode = ""
                     THEN policy_.PolicyMode
                     ELSE customPolicy.PolicyMode
         IN  [ allowedActions |->
                 IF mode = "allow" /\ Len(customPolicy.AllowedActions) = 0
                 THEN policy_.AllowedActions
                 ELSE customPolicy.AllowedActions,
               deniedActions |->
                 IF ~(mode = "allow" /\ Len(customPolicy.AllowedActions) = 0)
                    /\ mode = "deny" /\ Len(customPolicy.DeniedActions) = 0
                 THEN policy_.DeniedActions
                 ELSE customPolicy.DeniedActions,
               policyMode |-> mode ]
    ELSE [ allowedActions |-> policy_.AllowedActions,
           deniedActions |-> policy_.DeniedActions,
           policyMode |-> policy_.PolicyMode ]

\* The defaulting of the mode looking at the denied list first.
defaultMode_DenyFirst(policyMode_, allowedActions_, deniedActions_) ==
    IF policyMode_ = ""
    THEN IF Len(deniedActions_) > 0 THEN "deny"
         ELSE "allow"
    ELSE policyMode_

\* "Default to allow mode if not specified".
defaultMode(policyMode_, allowedActions_, deniedActions_) ==
    IF policyMode_ = ""
    THEN IF Len(allowedActions_) > 0 THEN "allow"
         ELSE IF Len(deniedActions_) > 0 THEN "deny"
         ELSE "allow"
    ELSE policyMode_

\* The loop body with a deny mode that looks up the normalized form only.
isViolation_DenyNormalizedOnly(policyMode_, allowedActions_, deniedActions_, actionWithVersion) ==
    LET action == normalizeAction(actionWithVersion)
    IN  IF policyMode_ = "allow"
        THEN ~contains(allowedActions_, action)
             /\ ~contains(allowedActions_, actionWithVersion)
        ELSE IF policyMode_ = "deny"
        THEN contains(deniedActions_, action)
        ELSE FALSE

\* The loop body with an empty allow list read as "everything is allowed".
isViolation_EmptyAllowsAll(policyMode_, allowedActions_, deniedActions_, actionWithVersion) ==
    LET action == normalizeAction(actionWithVersion)
    IN  IF policyMode_ = "allow"
        THEN /\ Len(allowedActions_) > 0
             /\ ~contains(allowedActions_, action)
             /\ ~contains(allowedActions_, actionWithVersion)
        ELSE IF policyMode_ = "deny"
        THEN contains(deniedActions_, action)
             \/ contains(deniedActions_, actionWithVersion)
        ELSE FALSE

\* The loop body with an allow mode that also rejects what the denied list
\* names.
isViolation_AllowAlsoDenied(policyMode_, allowedActions_, deniedActions_, actionWithVersion) ==
    LET action == normalizeAction(actionWithVersion)
    IN  IF policyMode_ = "allow"
        THEN \/ ~contains(allowedActions_, action)
                /\ ~contains(allowedActions_, actionWithVersion)
             \/ contains(deniedActions_, action)
             \/ contains(deniedActions_, actionWithVersion)
        ELSE IF policyMode_ = "deny"
        THEN contains(deniedActions_, action)
             \/ contains(deniedActions_, actionWithVersion)
        ELSE FALSE

\* The loop body rejecting every action under a mode that is neither allow
\* nor deny.
isViolation_UnknownModeRejects(policyMode_, allowedActions_, deniedActions_, actionWithVersion) ==
    LET action == normalizeAction(actionWithVersion)
    IN  IF policyMode_ = "allow"
        THEN ~contains(allowedActions_, action)
             /\ ~contains(allowedActions_, actionWithVersion)
        ELSE IF policyMode_ = "deny"
        THEN contains(deniedActions_, action)
             \/ contains(deniedActions_, actionWithVersion)
        ELSE TRUE

\* The body of the loop over the observed actions: whether actionWithVersion
\* is appended to violations.
isViolation(policyMode_, allowedActions_, deniedActions_, actionWithVersion) ==
    LET action == normalizeAction(actionWithVersion)
    IN  IF policyMode_ = "allow"
        THEN ~contains(allowedActions_, action)
             /\ ~contains(allowedActions_, actionWithVersion)
        ELSE IF policyMode_ = "deny"
        THEN contains(deniedActions_, action)
             \/ contains(deniedActions_, actionWithVersion)
        ELSE FALSE

\* The loop appending the normalized action instead of the observed string.
RECURSIVE checkActions_AppendNormalized(_, _, _, _, _, _)
checkActions_AppendNormalized(policyMode_, allowedActions_, deniedActions_, actions_, i, acc) ==
    IF i > Len(actions_) THEN acc
    ELSE checkActions_AppendNormalized(policyMode_, allowedActions_, deniedActions_,
             actions_, i + 1,
             IF isViolation(policyMode_, allowedActions_, deniedActions_, actions_[i])
             THEN Append(acc, normalizeAction(actions_[i]))
             ELSE acc)

\* The loop over the observed actions, from index i on, appending to acc.
RECURSIVE checkActions(_, _, _, _, _, _)
checkActions(policyMode_, allowedActions_, deniedActions_, actions_, i, acc) ==
    IF i > Len(actions_) THEN acc
    ELSE checkActions(policyMode_, allowedActions_, deniedActions_, actions_, i + 1,
             IF isViolation(policyMode_, allowedActions_, deniedActions_, actions_[i])
             THEN Append(acc, actions_[i])
             ELSE acc)

------------------------------------------------------------------------------
(* Policy documents and LoadPolicyConfig.                                  *)

\* A key of a YAML document is absent, or present with a value.
Absent == << >>
Present(v) == << v >>

\* The custom_rules mappings of the enumerated documents.
DocumentCustomRules ==
    { [k \in {CustomRepo} |->
         [AllowedActions |-> <<<<"a">>>>, DeniedActions |-> <<>>, PolicyMode |-> ""]],
      [k \in {CustomRepo} |->
         [AllowedActions |-> <<>>, DeniedActions |-> <<<<"b">>>>, PolicyMode |-> "deny"]] }

\* Well-formed policy documents: each key of the yaml tags of PolicyConfig is
\* absent or carries a value of the field's type.
Optional(S) == {Absent} \cup { Present(v) : v \in S }

Documents ==
    [policy_mode : Optional(Modes),
     allowed_actions : Optional(ActionLists),
     denied_actions : Optional(ActionLists),
     excluded_repos : Optional({ <<<<"o", "/", "R">>>> }),
     custom_rules : Optional(DocumentCustomRules)]

\* What os.ReadFile finds at configPath: nothing, bytes that are not a YAML
\* document of the PolicyConfig shape, or a document.
NoFile == [kind |-> "none"]
Malformed == [kind |-> "malformed"]
Files == {NoFile, Malformed} \cup { [kind |-> "yaml", doc |-> d] : d \in Documents }

\* The nil *PolicyConfig.
NoPolicy == [nil |-> TRUE]

\* yaml.Unmarshal(data, &config) on a well-formed document: a key that is
\* absent leaves the field at its zero value.
yamlUnmarshal(doc) ==
    [AllowedActions |-> IF doc.allowed_actions = Absent THEN <<>> ELSE doc.allowed_actions[1],
     DeniedActions |-> IF doc.denied_actions = Absent THEN <<>> ELSE doc.denied_actions[1],
     ExcludedRepos |-> IF doc.excluded_repos = Absent THEN <<>> ELSE doc.excluded_repos[1],
     CustomRules |-> IF doc.custom_rules = Absent THEN << >> ELSE doc.custom_rules[1],
     PolicyMode |-> IF doc.policy_mode = Absent THEN "" ELSE doc.policy_mode[1]]

\* "Set default policy mode if not specified" without the final else branch.
setDefaultPolicyMode_NoFallback(config) ==
    IF config.PolicyMode = ""
    THEN IF Len(config.AllowedActions) > 0
         THEN [config EXCEPT !.PolicyMode = "allow"]
         ELSE IF Len(config.DeniedActions) > 0
         THEN [config EXCEPT !.PolicyMode = "deny"]
         ELSE config
    ELSE config

\* "Set default policy mode if not specified".
setDefaultPolicyMode(config) ==
    IF config.PolicyMode = ""
    THEN IF Len(config.AllowedActions) > 0
         THEN [config EXCEPT !.PolicyMode = "allow"]
         ELSE IF Len(config.DeniedActions) > 0
         THEN [config EXCEPT !.PolicyMode = "deny"]
         ELSE [config EXCEPT !.PolicyMode = "allow"]
    ELSE config

------------------------------------------------------------------------------
(* MergeRepoPolicy.                                                        *)

\* The repository whose custom rules are "another repository's" in a merge
\* for CustomRepo.
OtherRepo == <<"o", "/", "R">>

\* Global policies handed to MergeRepoPolicy: with and without an entry for
\* either repository.
MergeCustomRules ==
    { << >>,
      [k \in {CustomRepo} |->
         [AllowedActions |-> <<<<"b">>>>, DeniedActions |-> <<<<"a">>>>, PolicyMode |-> "deny"]],
      [k \in {CustomRepo} |->
         [AllowedActions |-> <<<<"a", "@", "1">>, <<"b">>>>, DeniedActions |-> <<>>,
          PolicyMode |-> ""]],
      [k \in {OtherRepo} |->
         [AllowedActions |-> <<<<"b">>>>, DeniedActions |-> <<>>, PolicyMode |-> "allow"]],
      [k \in {CustomRepo, OtherRepo} |->
         [AllowedActions |-> <<<<"b">>>>, DeniedActions |-> <<>>,
          PolicyMode |-> IF k = CustomRepo THEN "allow" ELSE ""]] }

MergeGlobalPolicies ==
    [AllowedActions : { <<>>, <<<<"a">>>> }, DeniedActions : { <<>>, <<<<"a">>>> },
     ExcludedRepos : { <<>>, <<<<"o", "/", "r">>>> }, CustomRules : MergeCustomRules,
     PolicyMode : Modes]

\* The custom_rules mappings of the repository-local override documents.
OverrideCustomRules ==
    { [k \in {CustomRepo} |->
         [AllowedActions |-> <<<<"a">>>>, DeniedActions |-> <<>>, PolicyMode |-> ""]],
      [k \in {CustomRepo} |->
         [AllowedActions |-> <<>>, DeniedActions |-> <<<<"b">>>>, PolicyMode |-> "deny"]],
      [k \in {CustomRepo} |->
         [AllowedActions |-> <<>>, DeniedActions |-> <<>>, PolicyMode |-> ""]],
      [k \in {OtherRepo} |->
         [AllowedActions |-> <<<<"a">>>>, DeniedActions |-> <<>>, PolicyMode |-> "allow"]],
      [k \in {CustomRepo, OtherRepo} |->
         [AllowedActions |-> <<>>, DeniedActions |-> <<<<"a", "@", "1">>>>,
          PolicyMode |-> "audit"]] }

\* Repository-local override documents (.github/action-control-policy.yaml).
OverrideDocuments ==
    [policy_mode : Optional(Modes),
     allowed_actions : Optional({ <<>>, <<<<"a", "@", "1">>, <<"b">>>> }),
     denied_actions : Optional({ <<>>, <<<<"a">>>> }),
     excluded_repos : Optional({ <<<<"o", "/", "R">>>> }),
     custom_rules : Optional(OverrideCustomRules)]

\* What repoPolicyContent holds: bytes that do not parse, or a document.
OverrideContents ==
    {Malformed} \cup { [kind |-> "yaml", doc |-> d] : d \in OverrideDocuments }

\* m[k] = v on a Go map.
mapSet(m, k, v) == [x \in (DOMAIN m) \cup {k} |-> IF x = k THEN v ELSE m[x]]

\* determineRepoMode preferring the default (global) mode to the inference
\* from the lists.
determineRepoMode_DefaultFirst(policy_, defaultMode_) ==
    IF policy_.PolicyMode # "" THEN policy_.PolicyMode
    ELSE IF defaultMode_ # "" THEN defaultMode_
    ELSE IF Len(policy_.AllowedActions) > 0 THEN "allow"
    ELSE IF Len(policy_.DeniedActions) > 0 THEN "deny"
    ELSE defaultMode_

\* determineRepoMode figures out the appropriate policy mode for a repository.
determineRepoMode(policy_, defaultMode_) ==
    IF policy_.PolicyMode # "" THEN policy_.PolicyMode
    ELSE IF Len(policy_.AllowedActions) > 0 THEN "allow"
    ELSE IF Len(policy_.DeniedActions) > 0 THEN "deny"
    ELSE defaultMode_

\* The custom rule MergeRepoPolicy creates from the top-level lists of the
\* override document.
flatRule(globalPolicy, repoPolicy) ==
    LET rule == [AllowedActions |-> repoPolicy.AllowedActions,
                 DeniedActions |-> repoPolicy.DeniedActions,
                 PolicyMode |-> ""]
    IN  [rule EXCEPT !.PolicyMode =
            IF repoPolicy.PolicyMode # "" THEN repoPolicy.PolicyMode
            ELSE determineRepoMode(rule, globalPolicy.PolicyMode)]

\* The deep copy MergeRepoPolicy starts from.
copyPolicy(globalPolicy) ==
    [AllowedActions |-> globalPolicy.AllowedActions,
     DeniedActions |-> globalPolicy.DeniedActions,
     ExcludedRepos |-> globalPolicy.ExcludedRepos,
     CustomRules |-> [k \in DOMAIN globalPolicy.CustomRules |-> globalPolicy.CustomRules[k]],
     PolicyMode |-> globalPolicy.PolicyMode]

\* The merge taking over every custom rule of the override document.
mergedPolicy_AllOverrideRules(globalPolicy, repoPolicy, repo) ==
    LET copy == copyPolicy(globalPolicy)
        rules == [k \in (DOMAIN copy.CustomRules) \cup (DOMAIN repoPolicy.CustomRules) |->
                    IF k \in DOMAIN repoPolicy.CustomRules
                    THEN repoPolicy.CustomRules[k] ELSE copy.CustomRules[k]]
    IN  IF repo \in DOMAIN repoPolicy.CustomRules
        THEN [copy EXCEPT !.CustomRules = rules]
        ELSE IF Len(repoPolicy.AllowedActions) > 0 \/ Len(repoPolicy.DeniedActions) > 0
        THEN [copy EXCEPT !.CustomRules = mapSet(@, repo, flatRule(globalPolicy, repoPolicy))]
        ELSE copy

\* The merge looking at the top-level lists before the custom rule.
mergedPolicy_FlatListsFirst(globalPolicy, repoPolicy, repo) ==
    LET copy == copyPolicy(globalPolicy)
    IN  IF Len(repoPolicy.AllowedActions) > 0 \/ Len(repoPolicy.DeniedActions) > 0
        THEN [copy EXCEPT !.CustomRules = mapSet(@, repo, flatRule(globalPolicy, repoPolicy))]
        ELSE IF repo \in DOMAIN repoPolicy.CustomRules
        THEN [copy EXCEPT !.CustomRules = mapSet(@, repo, repoPolicy.CustomRules[repo])]
        ELSE copy

\* The merge adding the top-level lists to the lists of an entry the global
\* policy already has.
mergedPolicy_AppendToExisting(globalPolicy, repoPolicy, repo) ==
    LET copy == copyPolicy(globalPolicy)
        flat == flatRule(globalPolicy, repoPolicy)
    IN  IF repo \in DOMAIN repoPolicy.CustomRules
        THEN [copy EXCEPT !.CustomRules = mapSet(@, repo, repoPolicy.CustomRules[repo])]
        ELSE IF Len(repoPolicy.AllowedActions) > 0 \/ Len(repoPolicy.DeniedActions) > 0
        THEN [copy EXCEPT !.CustomRules = mapSet(@, repo,
                 IF repo \in DOMAIN copy.CustomRules
                 THEN [flat EXCEPT
                         !.AllowedActions = copy.CustomRules[repo].AllowedActions \o @,
                         !.DeniedActions = copy.CustomRules[repo].DeniedActions \o @]
                 ELSE flat)]
        ELSE copy

\* The merge giving the repository an empty rule when the override document
\* has nothing for it.
mergedPolicy_EmptyRuleWhenUnused(globalPolicy, repoPolicy, repo) ==
    LET copy == copyPolicy(globalPolicy)
    IN  IF repo \in DOMAIN repoPolicy.CustomRules
        THEN [copy EXCEPT !.CustomRules = mapSet(@, repo, repoPolicy.CustomRules[repo])]
        ELSE [copy EXCEPT !.CustomRules = mapSet(@, repo, flatRule(globalPolicy, repoPolicy))]

\* mergedPolicy at the return of MergeRepoPolicy, for an override document
\* that parsed into repoPolicy.
mergedPolicy(globalPolicy, repoPolicy, repo) ==
    LET copy == copyPolicy(globalPolicy)
    IN  IF repo \in DOMAIN repoPolicy.CustomRules
        THEN [copy EXCEPT !.CustomRules = mapSet(@, repo, repoPolicy.CustomRules[repo])]
        ELSE IF Len(repoPolicy.AllowedActions) > 0 \/ Len(repoPolicy.DeniedActions) > 0
        THEN [copy EXCEPT !.CustomRules = mapSet(@, repo, flatRule(globalPolicy, repoPolicy))]
        ELSE copy

\* The two results of CheckActionCompliance as a function of its arguments.
complianceResult(policy_, repo, actions_) ==
    IF isExcluded(policy_, repo)
    THEN [violations |-> <<>>, compliant |-> TRUE]
    ELSE LET ap == applicablePolicy(policy_, repo)
             mode == defaultMode(ap.policyMode, ap.allowedActions, ap.deniedActions)
             result == checkActions(mode, ap.allowedActions, ap.deniedActions,
                                    actions_, 1, <<>>)
         IN  [violations |-> result, compliant |-> (Len(result) = 0)]

------------------------------------------------------------------------------
(* The exporter (package internal/export).                                 *)

\* The byte of a character, as Go compares strings.
byteOf(c) ==
    CASE c = "/" -> 47 [] c = "1" -> 49 [] c = "2" -> 50 [] c = "@" -> 64
      [] c = "R" -> 82 [] c = "a" -> 97 [] c = "b" -> 98 [] c = "o" -> 111
      [] c = "r" -> 114

\* s < t on Go strings, comparing from index i on.
RECURSIVE stringLessFrom(_, _, _)
stringLessFrom(s, t, i) ==
    IF i > Len(t) THEN FALSE
    ELSE IF i > Len(s) THEN TRUE
    ELSE IF byteOf(s[i]) < byteOf(t[i]) THEN TRUE
    ELSE IF byteOf(s[i]) > byteOf(t[i]) THEN FALSE
    ELSE stringLessFrom(s, t, i + 1)

stringLess(s, t) == stringLessFrom(s, t, 1)

\* list with item inserted before its first element that is not smaller.
RECURSIVE insertSorted(_, _)
insertSorted(list, item) ==
    IF list = <<>> THEN <<item>>
    ELSE IF stringLess(list[1], item) THEN <<list[1]>> \o insertSorted(Tail(list), item)
    ELSE <<item>> \o list

\* Sorting in decreasing order.
RECURSIVE sortStrings_Descending(_)
sortStrings_Descending(list) ==
    IF list = <<>> THEN <<>>
    ELSE LET rest == sortStrings_Descending(Tail(list))
             smaller == SelectSeq(rest, LAMBDA x : stringLess(x, list[1]))
             others == SelectSeq(rest, LAMBDA x : ~stringLess(x, list[1]))
         IN  others \o <<list[1]>> \o smaller

\* sort.Strings(list).
RECURSIVE sortStrings(_)
sortStrings(list) ==
    IF list = <<>> THEN <<>>
    ELSE insertSorted(sortStrings(Tail(list)), list[1])

\* normalizeActionName cutting at the first '@'.
normalizeActionName_FirstAt(action, includeVersion) ==
    IF ~includeVersion /\ firstAt(action, 1) # 0
    THEN SubSeq(action, 1, firstAt(action, 1) - 1)
    ELSE action

\* normalizeActionName standardizes action names for policy: without
\* includeVersion, the prefix before the last '@'.
normalizeActionName(action, includeVersion) ==
    IF ~includeVersion /\ lastAt(action, Len(action)) # 0
    THEN SubSeq(action, 1, lastAt(action, Len(action)) - 1)
    ELSE action

\* The normalized names of the actions of one repository, in order.
actionNames(uses, includeVersion) ==
    [i \in 1..Len(uses) |-> normalizeActionName(uses[i], includeVersion)]

\* The keys of the map uniqueActions after the loop over actionsMap.
uniqueActions(actionsMap_, includeVersion) ==
    UNION { { actionNames(actionsMap_[repo], includeVersion)[i] :
                i \in 1..Len(actionsMap_[repo]) } : repo \in DOMAIN actionsMap_ }

\* The keys of a map collected in the order of one iteration over it.
RECURSIVE keysInSomeOrder(_)
keysInSomeOrder(keys) ==
    IF keys = {} THEN <<>>
    ELSE LET k == CHOOSE x \in keys : TRUE
         IN  <<k>> \o keysInSomeOrder(keys \ {k})

\* uniqueActionsList: the keys of uniqueActions, sorted.
uniqueActionsList(actionsMap_, includeVersion) ==
    sortStrings(keysInSomeOrder(uniqueActions(actionsMap_, includeVersion)))

\* repoPolicy with the names of a repository entered once each.
repoPolicy_Deduplicated(exporter_, uses) ==
    LET names == actionNames(uses, exporter_.IncludeVersions)
        once == sortStrings(keysInSomeOrder({ names[i] : i \in 1..Len(names) }))
    IN  [PolicyMode |-> exporter_.PolicyMode,
         AllowedActions |-> IF exporter_.PolicyMode = "allow" THEN once ELSE <<>>,
         DeniedActions |-> IF exporter_.PolicyMode = "deny" THEN once ELSE <<>>]

\* repoPolicy with the names of a repository left in workflow order.
repoPolicy_Unsorted(exporter_, uses) ==
    LET names == actionNames(uses, exporter_.IncludeVersions)
    IN  [PolicyMode |-> exporter_.PolicyMode,
         AllowedActions |-> IF exporter_.PolicyMode = "allow" THEN names ELSE <<>>,
         DeniedActions |-> IF exporter_.PolicyMode = "deny" THEN names ELSE <<>>]

\* repoPolicy: the custom rule built for one repository when IncludeCustom
\* is set; every action of the repository is appended, then the list sorted.
repoPolicy(exporter_, uses) ==
    LET names == sortStrings(actionNames(uses, exporter_.IncludeVersions))
    IN  [PolicyMode |-> exporter_.PolicyMode,
         AllowedActions |-> IF exporter_.PolicyMode = "allow" THEN names ELSE <<>>,
         DeniedActions |-> IF exporter_.PolicyMode = "deny" THEN names ELSE <<>>]

\* The generator putting the list into the field of the other mode.
generatedPolicy_OtherField(exporter_, actionsMap_) ==
    LET list == uniqueActionsList(actionsMap_, exporter_.IncludeVersions)
    IN  [PolicyMode |-> exporter_.PolicyMode,
         ExcludedRepos |-> <<>>,
         CustomRules |->
            IF exporter_.IncludeCustom
            THEN [repo \in DOMAIN actionsMap_ |-> repoPolicy(exporter_, actionsMap_[repo])]
            ELSE << >>,
         AllowedActions |-> IF exporter_.PolicyMode = "deny" THEN list ELSE <<>>,
         DeniedActions |-> IF exporter_.PolicyMode = "allow" THEN list ELSE <<>>]

\* policyConfig at the return of GeneratePolicyFromActions for a valid mode.
generatedPolicy(exporter_, actionsMap_) ==
    LET list == uniqueActionsList(actionsMap_, exporter_.IncludeVersions)
    IN  [PolicyMode |-> exporter_.PolicyMode,
         ExcludedRepos |-> <<>>,
         CustomRules |->
            IF exporter_.IncludeCustom
            THEN [repo \in DOMAIN actionsMap_ |-> repoPolicy(exporter_, actionsMap_[repo])]
            ELSE << >>,
         AllowedActions |-> IF exporter_.PolicyMode = "allow" THEN list ELSE <<>>,
         DeniedActions |-> IF exporter_.PolicyMode = "deny" THEN list ELSE <<>>]

\* The mode test of GeneratePolicyFromActions letting every mode through.
validPolicyMode_Any(mode) == TRUE

\* The mode test of GeneratePolicyFromActions and of runExport.
validPolicyMode(mode) == mode = "allow" \/ mode = "deny"

\* yaml.Marshal writing the allowed list under denied_actions.
yamlMarshal_WrongKey(config) ==
    [policy_mode |-> IF config.PolicyMode = "" THEN Absent ELSE Present(config.PolicyMode),
     allowed_actions |-> Absent,
     denied_actions |->
        IF Len(config.AllowedActions) = 0 THEN Absent ELSE Present(config.AllowedActions),
     excluded_repos |->
        IF Len(config.ExcludedRepos) = 0 THEN Absent ELSE Present(config.ExcludedRepos),
     custom_rules |->
        IF DOMAIN config.CustomRules = {} THEN Absent ELSE Present(config.CustomRules)]

\* yaml.Marshal(config): every field of PolicyConfig is tagged omitempty, so
\* an empty string, list or map leaves no key in the document.
yamlMarshal(config) ==
    [policy_mode |-> IF config.PolicyMode = "" THEN Absent ELSE Present(config.PolicyMode),
     allowed_actions |->
        IF Len(config.AllowedActions) = 0 THEN Absent ELSE Present(config.AllowedActions),
     denied_actions |->
        IF Len(config.DeniedActions) = 0 THEN Absent ELSE Present(config.DeniedActions),
     excluded_repos |->
        IF Len(config.ExcludedRepos) = 0 THEN Absent ELSE Present(config.ExcludedRepos),
     custom_rules |->
        IF DOMAIN config.CustomRules = {} THEN Absent ELSE Present(config.CustomRules)]

\* The results of LoadPolicyConfig as a function of the file at configPath.
loadPolicyConfig(file) ==
    IF file = NoFile
    THEN [policy |-> NoPolicy, err |-> "failed to read policy config"]
    ELSE IF file = Malformed
    THEN [policy |-> NoPolicy, err |-> "failed to parse policy config"]
    ELSE [policy |-> setDefaultPolicyMode(yamlUnmarshal(file.doc)), err |-> ""]

\* The 'uses' references of the workflows of the enumerated repositories.
ActionMaps ==
    UNION { [repos -> ObservedLists] : repos \in SUBSET RepoNames }

\* The settings of an ActionExporter (OutputPath is the one output file).
Exporters ==
    [PolicyMode : Modes, IncludeVersions : BOOLEAN, IncludeCustom : BOOLEAN]

------------------------------------------------------------------------------
(* The commands (cmd/action-control) and what they see of GitHub.          *)

\* github_token, organization and repository of the configuration; "r" is a
\* repository that is not in 'owner/repo' format.
Tokens == {"", "t"}
Organizations == {"", "o"}
MalformedRepo == <<"r">>
Repositories == {<<>>, CustomRepo, MalformedRepo}

\* Results of ListRepositories: an error, or the full names of the
\* repositories of the organization.
Listings ==
    { [err |-> TRUE, repos |-> <<>>],
      [err |-> FALSE, repos |-> <<CustomRepo, OtherRepo>>],
      [err |-> FALSE, repos |-> <<MalformedRepo, OtherRepo>>] }

\* Results of GetActions for one repository: an error, or the 'uses'
\* references of its workflows.
WorkflowResults ==
    { [err |-> TRUE, actions |-> <<>>],
      [err |-> FALSE, actions |-> <<>>],
      [err |-> FALSE, actions |-> << <<"a", "@", "1">> >>],
      [err |-> FALSE, actions |-> << <<"b">>, <<"a">> >>] }

\* The policy documents given to enforce: an allow list without a mode, and
\* a deny list that excludes one repository.
EnforceDocuments ==
    { [policy_mode |-> Absent, allowed_actions |-> Present(<< <<"a">> >>),
       denied_actions |-> Absent, excluded_repos |-> Absent, custom_rules |-> Absent],
      [policy_mode |-> Present("deny"), allowed_actions |-> Absent,
       denied_actions |-> Present(<< <<"b">> >>),
       excluded_repos |-> Present(<< CustomRepo >>), custom_rules |-> Absent] }

\* What is stored at the policy file path.
PolicyFiles == {NoFile, Malformed} \cup { [kind |-> "yaml", doc |-> d] : d \in EnforceDocuments }

\* ACTION_CONTROL_POLICY_CONTENT: unset (the empty string), or content.
NoContent == [kind |-> "unset"]
PolicyContents ==
    {NoContent, Malformed} \cup { [kind |-> "yaml", doc |-> d] : d \in EnforceDocuments }

\* Results of GetRepositoryContent for .github/action-control-policy.yaml: an
\* error, no content (not found), bytes that do not parse, or a document.
EmptyContent == [kind |-> "empty"]
ContentResults ==
    { [err |-> TRUE, content |-> EmptyContent],
      [err |-> FALSE, content |-> EmptyContent],
      [err |-> FALSE, content |-> Malformed],
      [err |-> FALSE, content |->
          [kind |-> "yaml",
           doc |-> [policy_mode |-> Absent, allowed_actions |-> Present(<< <<"b">> >>),
                    denied_actions |-> Absent, excluded_repos |-> Absent,
                    custom_rules |-> Absent]]] }

\* len(strings.Split(name, "/"))
splitParts(name) == 1 + Cardinality({ i \in 1..Len(name) : name[i] = "/" })

\* Longest listing of repositories handed to ActionsForOrg on its own.
MaxListed == 3

\* A full name with three parts.
NestedRepo == <<"o", "/", "r", "/", "x">>

\* Results of ListRepositories for ActionsForOrg on its own: an error, or
\* any listing of well-formed and malformed names, repetitions included.
OrgListings ==
    { [err |-> TRUE, repos |-> <<>>] } \cup
    { [err |-> FALSE, repos |-> q] :
        q \in SeqsUpTo({CustomRepo, OtherRepo, MalformedRepo, NestedRepo}, MaxListed) }

\* The loop of ActionsForOrg giving up at the first failed fetch.
RECURSIVE actionsForOrgFrom_StopAtFailure(_, _, _, _)
actionsForOrgFrom_StopAtFailure(repos, workflows_, i, result) ==
    IF i > Len(repos)
    THEN result
    ELSE IF splitParts(repos[i]) # 2
    THEN actionsForOrgFrom_StopAtFailure(repos, workflows_, i + 1, result)
    ELSE IF workflows_[repos[i]].err
    THEN result
    ELSE actionsForOrgFrom_StopAtFailure(repos, workflows_, i + 1,
                           mapSet(result, repos[i], workflows_[repos[i]].actions))

\* The loop of ActionsForOrg from the i-th listed repository on.
RECURSIVE actionsForOrgFrom(_, _, _, _)
actionsForOrgFrom(repos, workflows_, i, result) ==
    IF i > Len(repos)
    THEN result
    ELSE IF splitParts(repos[i]) # 2
    THEN actionsForOrgFrom(repos, workflows_, i + 1, result)
    ELSE IF workflows_[repos[i]].err
    THEN actionsForOrgFrom(repos, workflows_, i + 1, result)
    ELSE actionsForOrgFrom(repos, workflows_, i + 1,
                           mapSet(result, repos[i], workflows_[repos[i]].actions))

\* func (c *Client) ActionsForOrg(ctx, org) (map[string][]Action, error);
\* calls holds the repositories GetActions was called for.
actionsForOrg(listing_, workflows_) ==
    IF listing_.err
    THEN [result |-> << >>, err |-> TRUE, calls |-> {}]
    ELSE [result |-> actionsForOrgFrom(listing_.repos, workflows_, 1, << >>),
          err |-> FALSE,
          calls |-> { listing_.repos[i] : i \in { j \in 1..Len(listing_.repos) :
                                                    splitParts(listing_.repos[j]) = 2 } }]

\* "Fetch actions from GitHub" of the commands: the githubActionsMap, or the
\* message of the log.Fatalf that ends the run; calls holds the repositories
\* GetActions was called for and listed tells whether ListRepositories was
\* called.
githubActionsMap(specificRepo, listing_, workflows_) ==
    IF specificRepo # <<>>
    THEN IF splitParts(specificRepo) # 2
         THEN [fatal |-> "Invalid repository format", result |-> << >>, calls |-> {},
               listed |-> FALSE]
         ELSE IF workflows_[specificRepo].err
         THEN [fatal |-> "Error retrieving actions from repository", result |-> << >>,
               calls |-> {specificRepo}, listed |-> FALSE]
         ELSE [fatal |-> "",
               result |-> IF Len(workflows_[specificRepo].actions) > 0
                          THEN mapSet(<< >>, specificRepo, workflows_[specificRepo].actions)
                          ELSE << >>,
               calls |-> {specificRepo}, listed |-> FALSE]
    ELSE LET org == actionsForOrg(listing_, workflows_)
         IN  IF org.err
             THEN [fatal |-> "Error retrieving actions", result |-> << >>, calls |-> {},
                   listed |-> TRUE]
             ELSE [fatal |-> "", result |-> org.result, calls |-> org.calls,
                   listed |-> TRUE]

\* The document yaml.Unmarshal reads from no bytes at all: every key absent.
EmptyDocument ==
    [policy_mode |-> Absent, allowed_actions |-> Absent, denied_actions |-> Absent,
     excluded_repos |-> Absent, custom_rules |-> Absent]

\* MergeRepoPolicy reading content that does not parse as an empty document.
mergeRepoPolicy_MalformedAsEmpty(globalPolicy, content, repo) ==
    IF content \in {EmptyContent, Malformed}
    THEN [policy |-> mergedPolicy(globalPolicy, yamlUnmarshal(EmptyDocument), repo),
          err |-> ""]
    ELSE [policy |-> mergedPolicy(globalPolicy, yamlUnmarshal(content.doc), repo),
          err |-> ""]

\* The results of MergeRepoPolicy as a function of its arguments.
mergeRepoPolicy(globalPolicy, content, repo) ==
    IF content = Malformed
    THEN [policy |-> NoPolicy, err |-> "failed to parse repository policy"]
    ELSE IF content = EmptyContent
    THEN [policy |-> mergedPolicy(globalPolicy, yamlUnmarshal(EmptyDocument), repo),
          err |-> ""]
    ELSE [policy |-> mergedPolicy(globalPolicy, yamlUnmarshal(content.doc), repo),
          err |-> ""]

\* The test without the length of the content.
usableOverride_EmptyContent(ignoreLocalPolicy_, found) ==
    ~ignoreLocalPolicy_ /\ ~found.err

\* "if err == nil && len(repoPolicyContent) > 0", under !ignoreLocalPolicy:
\* whether runEnforce hands the fetched content to MergeRepoPolicy.
usableOverride(ignoreLocalPolicy_, found) ==
    ~ignoreLocalPolicy_ /\ ~found.err /\ found.content # EmptyContent

\* An entry for every checked repository, compliant or not.
recordViolations_Always(violations_, repo, result) ==
    mapSet(violations_, repo, result.violations)

\* "if !compliant { violations[repoFullName] = repoViolations }"
recordViolations(violations_, repo, result) ==
    IF result.compliant
    THEN violations_
    ELSE mapSet(violations_, repo, result.violations)

\* output_format of the configuration: unset, the two formats, and a
\* string that is neither.
OutputFormats == {"", "json", "markdown", "xml"}

\* The validation without the test of the target.
configError_TokenOnly(token, org, specificRepo) ==
    IF token = "" THEN "GitHub token not provided" ELSE ""

\* "Validate GitHub token" and "At least one target must be specified" of
\* the commands: the message of the log.Fatal, or "" when both pass.
configError(token, org, specificRepo) ==
    IF token = "" THEN "GitHub token not provided"
    ELSE IF org = "" /\ specificRepo = <<>>
    THEN "Either organization or specific repository must be provided"
    ELSE ""

\* The policy always comes from the policy file.
usesPolicyContent_Never(policyContent_, ignoreLocalPolicy_) == FALSE

\* "Handle policy from environment variable with highest priority when flag
\* is set"
usesPolicyContent(policyContent_, ignoreLocalPolicy_) ==
    policyContent_ # NoContent /\ ignoreLocalPolicy_

\* The exit status does not depend on the violations.
exitStatus_AlwaysZero(violations_) == 0

\* "Exit with error code if violations found"
exitStatus(violations_) == IF DOMAIN violations_ # {} THEN 1 ELSE 0

\* The exit status of a process that has not exited.
Running == -1

------------------------------------------------------------------------------
(* State.                                                                  *)

VARIABLES
    pc,             \* position of the caller or of the command
    configFile,     \* what is stored at the configPath given to LoadPolicyConfig
    err,            \* the error LoadPolicyConfig returned ("" for nil)
    policy,         \* the *PolicyConfig: loaded, or handed to CheckActionCompliance
    repoName,       \* repoName argument of CheckActionCompliance
    actions,        \* its actions argument (the observed references)
    policyMode,     \* local policyMode at the end of the call ("" if not reached)
    allowedActions, \* local allowedActions at the end of the call
    deniedActions,  \* local deniedActions at the end of the call
    excluded,       \* TRUE when the call returned from the exclusion loop
    violations,     \* first result
    compliant,      \* second result
    repoPolicyContent, \* repoPolicyContent argument of MergeRepoPolicy
    merged,         \* result of MergeRepoPolicy(policy, repoPolicyContent, repoName)
    remerged,       \* result of MergeRepoPolicy(merged, repoPolicyContent, repoName)
    exporter,       \* the ActionExporter
    actionsMap,     \* repository -> 'uses' references, as handed to the exporter
    policyConfig,   \* result of GeneratePolicyFromActions
    outputWritable, \* whether the directory and file at OutputPath can be written
    outputFile,     \* what is stored at OutputPath
    githubToken,    \* github_token of the configuration
    organization,   \* organization of the configuration
    repository,     \* repository of the configuration (<<>> for "")
    policyContent,  \* ACTION_CONTROL_POLICY_CONTENT
    ignoreLocalPolicy, \* ignore_local_policy of the configuration
    outputFormat,   \* output_format of the configuration
    listing,        \* what ListRepositories returns
    workflows,      \* repository -> what GetActions returns
    repoFiles,      \* repository -> what GetRepositoryContent returns
    pending,        \* keys of githubActionsMap the loop of runEnforce has not visited
    violationsMap,  \* the violations map of runEnforce
    appliedPolicy,  \* repository -> repoPolicy handed to CheckActionCompliance
    fetched,        \* repositories GetActions was called for
    listed,         \* whether ListRepositories was called
    contentFetched, \* repositories GetRepositoryContent was called for
    mergedRepos,    \* repositories MergeRepoPolicy was called for
    policyFileRead, \* whether LoadPolicyConfig was called on the policy file path
    exitCode,       \* exit status of the process (Running before it exits)
    fatal           \* message of the log.Fatal that ended the run ("" if none)

vars == << pc, configFile, err, policy, repoName, actions, policyMode,
           allowedActions, deniedActions, excluded, violations, compliant,
           repoPolicyContent, merged, remerged,
           exporter, actionsMap, policyConfig, outputWritable, outputFile,
           githubToken, organization, repository, policyContent, ignoreLocalPolicy,
           outputFormat, listing, workflows, repoFiles, pending, violationsMap,
           appliedPolicy, fetched, listed, contentFetched, mergedRepos, policyFileRead,
           exitCode, fatal >>

worldVars == << githubToken, organization, repository, policyContent,
               ignoreLocalPolicy, outputFormat, listing, workflows, repoFiles >>

runVars == << pending, violationsMap, appliedPolicy, fetched, listed, contentFetched,
             mergedRepos, policyFileRead, exitCode, fatal >>

commandVars == << worldVars, runVars >>

\* No command has done anything yet.
InitRunIdle ==
    /\ pending = {}
    /\ violationsMap = << >>
    /\ appliedPolicy = << >>
    /\ fetched = {}
    /\ listed = FALSE
    /\ contentFetched = {}
    /\ mergedRepos = {}
    /\ policyFileRead = FALSE
    /\ exitCode = Running
    /\ fatal = ""

\* No command is run: the library is called directly.
InitCommandIdle ==
    /\ githubToken = ""
    /\ organization = ""
    /\ repository = <<>>
    /\ policyContent = NoContent
    /\ ignoreLocalPolicy = FALSE
    /\ outputFormat = ""
    /\ listing = [err |-> TRUE, repos |-> <<>>]
    /\ workflows = [r \in RepoNames |-> [err |-> TRUE, actions |-> <<>>]]
    /\ repoFiles = [r \in RepoNames |-> [err |-> TRUE, content |-> EmptyContent]]
    /\ InitRunIdle

exportVars == << exporter, actionsMap, policyConfig, outputWritable, outputFile >>

\* No export is under way.
InitExportIdle ==
    /\ exporter = [PolicyMode |-> "allow", IncludeVersions |-> FALSE, IncludeCustom |-> FALSE]
    /\ actionsMap = << >>
    /\ policyConfig = NoPolicy
    /\ outputWritable = TRUE
    /\ outputFile = NoFile

mergeVars == << repoPolicyContent, merged, remerged >>

\* No merge is under way.
InitMergeIdle ==
    /\ repoPolicyContent = Malformed
    /\ merged = NoPolicy
    /\ remerged = NoPolicy

checkLocals == << policyMode, allowedActions, deniedActions, excluded,
                  violations, compliant >>

\* Nothing has been checked yet.
InitCheckLocals ==
    /\ policyMode = ""
    /\ allowedActions = <<>>
    /\ deniedActions = <<>>
    /\ excluded = FALSE
    /\ violations = <<>>
    /\ compliant = FALSE

\* A call of CheckActionCompliance on any policy, repository and observed list.
InitCheck ==
    /\ pc = "check"
    /\ configFile = NoFile
    /\ err = ""
    /\ policy \in PolicyConfig
    /\ repoName \in RepoNames
    /\ actions \in ObservedLists
    /\ InitCheckLocals
    /\ InitMergeIdle
    /\ InitExportIdle
    /\ InitCommandIdle

\* A call of CheckActionCompliance whose result is compared with the results
\* for variants of the policy.
InitCompare ==
    /\ pc = "check"
    /\ configFile = NoFile
    /\ err = ""
    /\ policy \in PolicyConfig
    /\ repoName \in RepoNames
    /\ actions \in ComparedLists
    /\ InitCheckLocals
    /\ InitMergeIdle
    /\ InitExportIdle
    /\ InitCommandIdle

\* A call of LoadPolicyConfig on any file.
InitLoad ==
    /\ pc = "load"
    /\ configFile \in Files
    /\ err = ""
    /\ policy = NoPolicy
    /\ repoName = CustomRepo
    /\ actions = <<>>
    /\ InitCheckLocals
    /\ InitMergeIdle
    /\ InitExportIdle
    /\ InitCommandIdle

\* A call of MergeRepoPolicy on any global policy, override content and
\* repository, followed by a second call on its result.
InitMerge ==
    /\ pc = "merge"
    /\ configFile = NoFile
    /\ err = ""
    /\ policy \in MergeGlobalPolicies
    /\ repoName \in RepoNames
    /\ actions = <<>>
    /\ InitCheckLocals
    /\ repoPolicyContent \in OverrideContents
    /\ merged = NoPolicy
    /\ remerged = NoPolicy
    /\ InitExportIdle
    /\ InitCommandIdle

\* A call of GeneratePolicyFromActions on any exporter settings and actions,
\* followed by ExportPolicyFile and by LoadPolicyConfig on the written file.
InitGenerate ==
    /\ pc = "generate"
    /\ configFile = NoFile
    /\ err = ""
    /\ policy = NoPolicy
    /\ repoName = CustomRepo
    /\ actions = <<>>
    /\ InitCheckLocals
    /\ InitMergeIdle
    /\ exporter \in Exporters
    /\ actionsMap \in ActionMaps
    /\ policyConfig = NoPolicy
    /\ outputWritable \in BOOLEAN
    /\ outputFile = NoFile
    /\ InitCommandIdle

\* func LoadPolicyConfig(configPath string) (*PolicyConfig, error)
LoadPolicyConfig ==
    /\ pc = "load"
    /\ IF configFile = NoFile
       THEN /\ err' = "failed to read policy config"
            /\ policy' = NoPolicy
            /\ pc' = "failed"
       ELSE IF configFile = Malformed
       THEN /\ err' = "failed to parse policy config"
            /\ policy' = NoPolicy
            /\ pc' = "failed"
       ELSE /\ err' = ""
            /\ policy' = setDefaultPolicyMode(yamlUnmarshal(configFile.doc))
            /\ pc' = "loaded"
    /\ UNCHANGED << configFile, repoName, actions, checkLocals, mergeVars, exportVars,
                    commandVars >>

\* func CheckActionCompliance(policy, repoName, actions) ([]string, bool)
CheckActionCompliance ==
    /\ pc = "check"
    /\ pc' = "done"
    /\ IF isExcluded(policy, repoName)
       THEN /\ excluded' = TRUE
            /\ violations' = <<>>
            /\ compliant' = TRUE
            /\ UNCHANGED << policyMode, allowedActions, deniedActions >>
       ELSE LET ap == applicablePolicy(policy, repoName)
                mode == defaultMode(ap.policyMode, ap.allowedActions, ap.deniedActions)
                result == checkActions(mode, ap.allowedActions, ap.deniedActions,
                                       actions, 1, <<>>)
            IN  /\ excluded' = FALSE
                /\ policyMode' = mode
                /\ allowedActions' = ap.allowedActions
                /\ deniedActions' = ap.deniedActions
                /\ violations' = result
                /\ compliant' = (Len(result) = 0)
    /\ UNCHANGED << configFile, err, policy, repoName, actions, mergeVars, exportVars,
                    commandVars >>

\* func MergeRepoPolicy(globalPolicy, repoPolicyContent, repoName) (*PolicyConfig, error)
MergeRepoPolicy ==
    /\ pc = "merge"
    /\ merged' = mergeRepoPolicy(policy, repoPolicyContent, repoName).policy
    /\ err' = mergeRepoPolicy(policy, repoPolicyContent, repoName).err
    /\ pc' = IF mergeRepoPolicy(policy, repoPolicyContent, repoName).err = ""
             THEN "merged"
             ELSE "failed"
    /\ UNCHANGED << configFile, policy, repoName, actions, checkLocals,
                    repoPolicyContent, remerged, exportVars, commandVars >>

\* MergeRepoPolicy called again, with the merged policy as the global one.
MergeRepoPolicyAgain ==
    /\ pc = "merged"
    /\ remerged' = mergeRepoPolicy(merged, repoPolicyContent, repoName).policy
    /\ pc' = "remerged"
    /\ UNCHANGED << configFile, err, policy, repoName, actions, checkLocals,
                    repoPolicyContent, merged, exportVars, commandVars >>

\* func (e *ActionExporter) GeneratePolicyFromActions(actionsMap) (*PolicyConfig, error)
GeneratePolicyFromActions ==
    /\ pc = "generate"
    /\ IF validPolicyMode(exporter.PolicyMode)
       THEN /\ policyConfig' = generatedPolicy(exporter, actionsMap)
            /\ err' = ""
            /\ pc' = "write"
       ELSE /\ policyConfig' = NoPolicy
            /\ err' = "invalid policy mode"
            /\ pc' = "failed"
    /\ UNCHANGED << configFile, policy, repoName, actions, checkLocals, mergeVars,
                    exporter, actionsMap, outputWritable, outputFile, commandVars >>

\* func (e *ActionExporter) ExportPolicyFile(config *PolicyConfig) error
ExportPolicyFile ==
    /\ pc = "write"
    /\ IF outputWritable
       THEN /\ outputFile' = [kind |-> "yaml", doc |-> yamlMarshal(policyConfig)]
            /\ err' = ""
            /\ pc' = "written"
       ELSE /\ outputFile' = outputFile
            /\ err' = "failed to write policy file"
            /\ pc' = "failed"
    /\ UNCHANGED << configFile, policy, repoName, actions, checkLocals, mergeVars,
                    exporter, actionsMap, policyConfig, outputWritable, commandVars >>

\* LoadPolicyConfig(OutputPath) after a successful ExportPolicyFile.
LoadExportedPolicy ==
    /\ pc = "written"
    /\ policy' = loadPolicyConfig(outputFile).policy
    /\ err' = loadPolicyConfig(outputFile).err
    /\ pc' = IF loadPolicyConfig(outputFile).err = "" THEN "reloaded" ELSE "failed"
    /\ UNCHANGED << configFile, repoName, actions, checkLocals, mergeVars, exportVars,
                    commandVars >>

\* An export command in any configuration, against any state of GitHub.
InitRunExport ==
    /\ pc = "export"
    /\ configFile = NoFile
    /\ err = ""
    /\ policy = NoPolicy
    /\ repoName = CustomRepo
    /\ actions = <<>>
    /\ InitCheckLocals
    /\ InitMergeIdle
    /\ exporter \in Exporters
    /\ actionsMap = << >>
    /\ policyConfig = NoPolicy
    /\ outputWritable \in BOOLEAN
    /\ outputFile = NoFile
    /\ githubToken \in Tokens
    /\ organization \in Organizations
    /\ repository \in Repositories
    /\ policyContent = NoContent
    /\ ignoreLocalPolicy = FALSE
    /\ outputFormat = ""
    /\ listing \in Listings
    /\ workflows \in [RepoNames -> WorkflowResults]
    /\ repoFiles = [r \in RepoNames |-> [err |-> TRUE, content |-> EmptyContent]]
    /\ InitRunIdle

\* Either entry to the exporter: the library calls or the command.
InitExport == InitGenerate \/ InitRunExport

\* An enforce command in any configuration, against any state of GitHub.
InitEnforce ==
    /\ pc = "enforce"
    /\ configFile \in PolicyFiles
    /\ err = ""
    /\ policy = NoPolicy
    /\ repoName = CustomRepo
    /\ actions = <<>>
    /\ InitCheckLocals
    /\ InitMergeIdle
    /\ InitExportIdle
    /\ githubToken \in Tokens
    /\ organization \in Organizations
    /\ repository \in Repositories
    /\ policyContent \in PolicyContents
    /\ ignoreLocalPolicy \in BOOLEAN
    /\ outputFormat = ""
    /\ listing \in Listings
    /\ workflows \in [RepoNames -> WorkflowResults]
    /\ repoFiles \in [RepoNames -> ContentResults]
    /\ InitRunIdle

\* log.Fatal(message): the process exits with status 1.
Fatal(message) ==
    /\ fatal' = message
    /\ exitCode' = 1
    /\ pc' = "exited"

\* func runExport()
RunExport ==
    /\ pc = "export"
    /\ IF configError(githubToken, organization, repository) # ""
       THEN /\ Fatal(configError(githubToken, organization, repository))
            /\ UNCHANGED << err, fetched, listed, actionsMap, policyConfig, outputFile >>
       ELSE IF exporter.PolicyMode # "allow" /\ exporter.PolicyMode # "deny"
       THEN /\ Fatal("Invalid policy mode")
            /\ UNCHANGED << err, fetched, listed, actionsMap, policyConfig, outputFile >>
       ELSE LET found == githubActionsMap(repository, listing, workflows)
            IN  /\ fetched' = found.calls
                /\ listed' = found.listed
                /\ IF found.fatal # ""
                   THEN /\ Fatal(found.fatal)
                        /\ UNCHANGED << err, actionsMap, policyConfig, outputFile >>
                   ELSE /\ actionsMap' = found.result
                        /\ IF ~validPolicyMode(exporter.PolicyMode)
                           THEN /\ Fatal("Error generating policy")
                                /\ err' = "invalid policy mode"
                                /\ UNCHANGED << policyConfig, outputFile >>
                           ELSE /\ policyConfig' = generatedPolicy(exporter, found.result)
                                /\ IF outputWritable
                                   THEN /\ outputFile' = [kind |-> "yaml",
                                                          doc |-> yamlMarshal(policyConfig')]
                                        /\ err' = ""
                                        /\ fatal' = ""
                                        /\ exitCode' = 0
                                        /\ pc' = "exited"
                                   ELSE /\ Fatal("Error writing policy file")
                                        /\ err' = "failed to write policy file"
                                        /\ outputFile' = outputFile
    /\ UNCHANGED << configFile, policy, repoName, actions, checkLocals, mergeVars,
                    exporter, outputWritable, worldVars, pending, violationsMap,
                    appliedPolicy, contentFetched, mergedRepos, policyFileRead >>

\* func runEnforce(), up to the loop over githubActionsMap.
RunEnforce ==
    /\ pc = "enforce"
    /\ IF configError(githubToken, organization, repository) # ""
       THEN /\ Fatal(configError(githubToken, organization, repository))
            /\ UNCHANGED << err, policy, policyFileRead, fetched, listed, actionsMap,
                            pending >>
       ELSE LET fromContent == usesPolicyContent(policyContent, ignoreLocalPolicy)
                loaded == IF fromContent
                          THEN loadPolicyConfig(policyContent)
                          ELSE loadPolicyConfig(configFile)
            IN  /\ policyFileRead' = ~fromContent
                /\ err' = loaded.err
                /\ IF loaded.err # ""
                   THEN /\ Fatal(IF fromContent
                                 THEN "Error loading policy from environment variable"
                                 ELSE "Error loading policy file")
                        /\ UNCHANGED << policy, fetched, listed, actionsMap, pending >>
                   ELSE LET found == githubActionsMap(repository, listing, workflows)
                        IN  /\ policy' = loaded.policy
                            /\ fetched' = found.calls
                            /\ listed' = found.listed
                            /\ IF found.fatal # ""
                               THEN /\ Fatal(found.fatal)
                                    /\ UNCHANGED << actionsMap, pending >>
                               ELSE /\ actionsMap' = found.result
                                    /\ pending' = DOMAIN found.result
                                    /\ pc' = "enforce_loop"
                                    /\ UNCHANGED << fatal, exitCode >>
    /\ UNCHANGED << configFile, repoName, actions, checkLocals, mergeVars,
                    exporter, policyConfig, outputWritable, outputFile, worldVars,
                    violationsMap, appliedPolicy, contentFetched, mergedRepos >>

\* One iteration of "Check each repository against policy" of runEnforce,
\* for a key of githubActionsMap in the order the map yields.
RunEnforceRepo ==
    /\ pc = "enforce_loop"
    /\ \E repoFullName \in pending :
        /\ pending' = pending \ {repoFullName}
        /\ IF splitParts(repoFullName) # 2
           THEN UNCHANGED << contentFetched, mergedRepos, appliedPolicy, violationsMap >>
           ELSE LET found == repoFiles[repoFullName]
                    usable == usableOverride(ignoreLocalPolicy, found)
                    mergeResult == mergeRepoPolicy(policy, found.content, repoFullName)
                    repoPolicy_ == IF usable /\ mergeResult.err = ""
                                   THEN mergeResult.policy
                                   ELSE policy
                    result == complianceResult(repoPolicy_, repoFullName,
                                               actionsMap[repoFullName])
                IN  /\ contentFetched' = IF ignoreLocalPolicy
                                         THEN contentFetched
                                         ELSE contentFetched \cup {repoFullName}
                    /\ mergedRepos' = IF usable
                                      THEN mergedRepos \cup {repoFullName}
                                      ELSE mergedRepos
                    /\ appliedPolicy' = mapSet(appliedPolicy, repoFullName, repoPolicy_)
                    /\ violationsMap' = recordViolations(violationsMap, repoFullName, result)
    /\ UNCHANGED << pc, configFile, err, policy, repoName, actions, checkLocals, mergeVars,
                    exportVars, worldVars, fetched, listed, policyFileRead, exitCode, fatal >>

\* The end of runEnforce: the report and the exit status.
RunEnforceExit ==
    /\ pc = "enforce_loop"
    /\ pending = {}
    /\ exitCode' = exitStatus(violationsMap)
    /\ pc' = "exited"
    /\ UNCHANGED << configFile, err, policy, repoName, actions, checkLocals, mergeVars,
                    exportVars, worldVars, pending, violationsMap, appliedPolicy, fetched,
                    listed, contentFetched, mergedRepos, policyFileRead, fatal >>

\* The generated policy is handed, as the policy to enforce, to the check
\* of one of the repositories it was generated from, with the 'uses'
\* references of that repository.
CheckGeneratedPolicy ==
    /\ pc = "write"
    /\ \E repoFullName \in DOMAIN actionsMap :
        /\ policy' = policyConfig
        /\ repoName' = repoFullName
        /\ actions' = actionsMap[repoFullName]
    /\ pc' = "check"
    /\ UNCHANGED << configFile, err, checkLocals, mergeVars, exportVars, commandVars >>

\* A report command in any configuration, against any state of GitHub.
InitReport ==
    /\ pc = "report"
    /\ configFile = NoFile
    /\ err = ""
    /\ policy = NoPolicy
    /\ repoName = CustomRepo
    /\ actions = <<>>
    /\ InitCheckLocals
    /\ InitMergeIdle
    /\ InitExportIdle
    /\ githubToken \in Tokens
    /\ organization \in Organizations
    /\ repository \in Repositories
    /\ policyContent = NoContent
    /\ ignoreLocalPolicy = FALSE
    /\ outputFormat \in OutputFormats
    /\ listing \in Listings
    /\ workflows \in [RepoNames -> WorkflowResults]
    /\ repoFiles = [r \in RepoNames |-> [err |-> TRUE, content |-> EmptyContent]]
    /\ InitRunIdle

\* func runReport(); the report itself goes to the standard output.
RunReport ==
    /\ pc = "report"
    /\ IF configError(githubToken, organization, repository) # ""
       THEN /\ Fatal(configError(githubToken, organization, repository))
            /\ UNCHANGED << fetched, listed, actionsMap >>
       ELSE LET found == githubActionsMap(repository, listing, workflows)
            IN  /\ fetched' = found.calls
                /\ listed' = found.listed
                /\ IF found.fatal # ""
                   THEN /\ Fatal(found.fatal)
                        /\ UNCHANGED actionsMap
                   ELSE /\ actionsMap' = found.result
                        /\ IF outputFormat \in {"", "json", "markdown"}
                           THEN /\ fatal' = ""
                                /\ exitCode' = 0
                                /\ pc' = "exited"
                           ELSE Fatal("Unsupported output format")
    /\ UNCHANGED << configFile, err, policy, repoName, actions, checkLocals, mergeVars,
                    exporter, policyConfig, outputWritable, outputFile, worldVars,
                    pending, violationsMap, appliedPolicy, contentFetched, mergedRepos,
                    policyFileRead >>

\* A call of ActionsForOrg on any listing and any results of GetActions.
InitActionsForOrg ==
    /\ pc = "collect"
    /\ configFile = NoFile
    /\ err = ""
    /\ policy = NoPolicy
    /\ repoName = CustomRepo
    /\ actions = <<>>
    /\ InitCheckLocals
    /\ InitMergeIdle
    /\ InitExportIdle
    /\ githubToken = "t"
    /\ organization = "o"
    /\ repository = <<>>
    /\ policyContent = NoContent
    /\ ignoreLocalPolicy = FALSE
    /\ outputFormat = ""
    /\ listing \in OrgListings
    /\ workflows \in [RepoNames -> WorkflowResults]
    /\ repoFiles = [r \in RepoNames |-> [err |-> TRUE, content |-> EmptyContent]]
    /\ InitRunIdle

\* func (c *Client) ActionsForOrg(ctx, org) (map[string][]Action, error)
ActionsForOrg ==
    /\ pc = "collect"
    /\ actionsMap' = actionsForOrg(listing, workflows).result
    /\ fetched' = actionsForOrg(listing, workflows).calls
    /\ listed' = TRUE
    /\ err' = IF actionsForOrg(listing, workflows).err THEN "failed to list repositories" ELSE ""
    /\ pc' = IF actionsForOrg(listing, workflows).err THEN "failed" ELSE "collected"
    /\ UNCHANGED << configFile, policy, repoName, actions, checkLocals, mergeVars,
                    exporter, policyConfig, outputWritable, outputFile, worldVars,
                    pending, violationsMap, appliedPolicy, contentFetched, mergedRepos,
                    policyFileRead, exitCode, fatal >>

NextCheck == CheckActionCompliance

SpecCheck == InitCheck /\ [][NextCheck]_vars

SpecCompare == InitCompare /\ [][NextCheck]_vars

NextLoad == LoadPolicyConfig

SpecLoad == InitLoad /\ [][NextLoad]_vars

NextMerge == MergeRepoPolicy \/ MergeRepoPolicyAgain

SpecMerge == InitMerge /\ [][NextMerge]_vars

NextGenerate == GeneratePolicyFromActions \/ ExportPolicyFile \/ LoadExportedPolicy

SpecGenerate == InitGenerate /\ [][NextGenerate]_vars

NextExport == NextGenerate \/ RunExport

SpecExport == InitExport /\ [][NextExport]_vars

NextEnforce == RunEnforce \/ RunEnforceRepo \/ RunEnforceExit

SpecEnforce == InitEnforce /\ [][NextEnforce]_vars

\* Any of the three functions of the policy engine, called on its own.
InitPolicy == InitLoad \/ InitMerge \/ InitCheck

NextPolicy == NextLoad \/ NextMerge \/ NextCheck

SpecPolicy == InitPolicy /\ [][NextPolicy]_vars

\* Export followed by enforce: a policy is generated and then checked
\* against the repositories it was generated from.
NextBaseline == GeneratePolicyFromActions \/ CheckGeneratedPolicy \/ CheckActionCompliance

SpecBaseline == InitGenerate /\ [][NextBaseline]_vars

\* Any of the three commands.
InitCommands == InitReport \/ InitRunExport \/ InitEnforce

NextCommands == RunReport \/ RunExport \/ NextEnforce

SpecCommands == InitCommands /\ [][NextCommands]_vars

NextActionsForOrg == ActionsForOrg

SpecActionsForOrg == InitActionsForOrg /\ [][NextActionsForOrg]_vars

\* MergeRepoPolicy called directly, or through an enforce run.
InitEnforceMerge == InitMerge \/ InitEnforce

NextEnforceMerge == NextMerge \/ NextEnforce

SpecEnforceMerge == InitEnforceMerge /\ [][NextEnforceMerge]_vars

------------------------------------------------------------------------------
(* Vocabulary of the properties.                                           *)

Range(s) == { s[i] : i \in 1..Len(s) }

HasAt(ref) == \E i \in 1..Len(ref) : ref[i] = "@"

\* Everything before the '@' of ref (the first one), ref itself without one.
BeforeAt(ref) ==
    IF HasAt(ref)
    THEN LET k == CHOOSE i \in 1..Len(ref) :
                      /\ ref[i] = "@"
                      /\ \A j \in 1..(i - 1) : ref[j] # "@"
         IN  [i \in 1..(k - 1) |-> ref[i]]
    ELSE ref

\* s is t with some of its positions removed.
IsSubsequence(s, t) ==
    \E f \in [1..Len(s) -> 1..Len(t)] :
        /\ \A i \in 1..Len(s) : s[i] = t[f[i]]
        /\ \A i, j \in 1..Len(s) : i < j => f[i] < f[j]

Occurrences(v, s) == Cardinality({ i \in 1..Len(s) : s[i] = v })

\* A call of CheckActionCompliance has returned.
Checked == pc = "done"

\* The repository of the call is an entry of excludedRepos.
RepoExcluded == repoName \in Range(policy.ExcludedRepos)

HasCustomRule == repoName \in DOMAIN policy.CustomRules

CustomRule == policy.CustomRules[repoName]

\* ref is listed, raw or normalized, in list.
Listed(ref, list) == ref \in Range(list) \/ BeforeAt(ref) \in Range(list)

------------------------------------------------------------------------------
(* C1..C10: CheckActionCompliance and LoadPolicyConfig.                    *)

\* C1: a repository that equals an entry of excludedRepos gets no violations
\* and compliant = true, whatever the modes, the lists and the custom rules.
C1_ExcludedRepoIsCompliant ==
    (Checked /\ RepoExcluded) => (violations = <<>> /\ compliant = TRUE)

\* An excluded repository with a custom rule and observed actions that the
\* empty global allow list would all reject.
C1_Witness ==
    /\ Checked /\ RepoExcluded /\ HasCustomRule
    /\ policy.PolicyMode = "allow" /\ policy.AllowedActions = <<>>
    /\ CustomRule.PolicyMode = "deny" /\ CustomRule.DeniedActions = <<<<"a">>>>
    /\ actions = << <<"a">>, <<"b">> >>
    /\ compliant

\* C2: in allow mode (repository not excluded) the violations are exactly the
\* observed references that are in the resolved allow list neither raw nor
\* cut before the '@'.
C2_AllowModeViolations ==
    (Checked /\ ~RepoExcluded /\ policyMode = "allow") =>
        \A i \in 1..Len(actions) :
            actions[i] \in Range(violations) <=> ~Listed(actions[i], allowedActions)

\* Allow mode, one observed reference accepted through its normalized form
\* and one with two '@' rejected.
C2_Witness ==
    /\ Checked /\ ~RepoExcluded /\ policyMode = "allow"
    /\ allowedActions = << <<"a", "@", "1">>, <<"b">> >>
    /\ actions = << <<"b">>, <<"a", "@", "1", "@", "2">> >>
    /\ violations = << <<"a", "@", "1", "@", "2">> >>

\* C3: in deny mode (repository not excluded) the violations are exactly the
\* observed references that are in the resolved deny list raw or cut before
\* the '@'.
C3_DenyModeViolations ==
    (Checked /\ ~RepoExcluded /\ policyMode = "deny") =>
        \A i \in 1..Len(actions) :
            actions[i] \in Range(violations) <=> Listed(actions[i], deniedActions)

\* Deny mode, one observed reference denied through its raw string only and
\* one not denied.
C3_Witness ==
    /\ Checked /\ ~RepoExcluded /\ policyMode = "deny"
    /\ deniedActions = << <<"a", "@", "1">>, <<"b">> >>
    /\ actions = << <<"a", "@", "2">>, <<"a", "@", "1">> >>
    /\ violations = << <<"a", "@", "1">> >>

\* C4: the violations are a subsequence of the observed actions (raw strings,
\* same order, every occurrence of an offending reference), compliant holds
\* exactly when there are none, and an empty observed list is compliant.
C4_ViolationsAreSubsequence ==
    Checked =>
        /\ IsSubsequence(violations, actions)
        /\ \A v \in Range(violations) : Occurrences(v, violations) = Occurrences(v, actions)
        /\ compliant <=> (violations = <<>>)
        /\ (actions = <<>>) => compliant

\* Two observed references of which the second alone is a violation.
C4_Witness ==
    /\ Checked /\ ~RepoExcluded
    /\ Len(actions) = 2 /\ HasAt(actions[2])
    /\ violations = << actions[2] >>
    /\ ~compliant

\* C5: the effective mode is the custom rule's policyMode if the rule exists
\* and sets one, else the global policyMode, else allow if the resolved
\* allow list is non-empty, else deny if the resolved deny list is
\* non-empty, else allow.
C5_EffectiveMode ==
    (Checked /\ ~RepoExcluded) =>
        policyMode =
            IF HasCustomRule /\ CustomRule.PolicyMode # "" THEN CustomRule.PolicyMode
            ELSE IF policy.PolicyMode # "" THEN policy.PolicyMode
            ELSE IF allowedActions # <<>> THEN "allow"
            ELSE IF deniedActions # <<>> THEN "deny"
            ELSE "allow"

\* No mode anywhere and both lists of the custom rule populated: allow wins.
C5_Witness ==
    /\ Checked /\ ~RepoExcluded /\ HasCustomRule
    /\ CustomRule.PolicyMode = "" /\ policy.PolicyMode = ""
    /\ CustomRule.AllowedActions # <<>> /\ CustomRule.DeniedActions # <<>>
    /\ policyMode = "allow"

\* C6 as claimed: with a custom rule for the repository, the list checked for
\* the effective mode is the rule's own list when that is non-empty and the
\* global list of the same mode when it is empty; the list of the other
\* mode is never replaced.
C6_CustomListElseGlobal ==
    (Checked /\ ~RepoExcluded /\ HasCustomRule) =>
        /\ policyMode = "allow" =>
             /\ allowedActions = IF CustomRule.AllowedActions # <<>>
                                 THEN CustomRule.AllowedActions
                                 ELSE policy.AllowedActions
             /\ deniedActions = CustomRule.DeniedActions
        /\ policyMode = "deny" =>
             /\ deniedActions = IF CustomRule.DeniedActions # <<>>
                                THEN CustomRule.DeniedActions
                                ELSE policy.DeniedActions
             /\ allowedActions = CustomRule.AllowedActions

\* An entry of list that carries a version suffix and names the action of ref.
PinnedEntryFor(ref, list) ==
    \E e \in Range(list) : HasAt(e) /\ BeforeAt(e) = BeforeAt(ref)

\* list has no entry without a version suffix for the action of ref.
NoUnpinnedEntryFor(ref, list) == BeforeAt(ref) \notin Range(list)

\* C7: policy entries are not normalized. Where the list holds only pinned
\* entries for the action of an observed reference, the reference matches
\* exactly when its raw string is one of them: in allow mode it is a
\* violation unless it is, in deny mode it is a violation only if it is.
C7_PinnedEntryMatchesExactlyOnly ==
    (Checked /\ ~RepoExcluded) =>
        \A i \in 1..Len(actions) :
            /\ (policyMode = "allow" /\ NoUnpinnedEntryFor(actions[i], allowedActions)) =>
                 (actions[i] \in Range(violations) <=> actions[i] \notin Range(allowedActions))
            /\ (policyMode = "deny" /\ NoUnpinnedEntryFor(actions[i], deniedActions)) =>
                 (actions[i] \in Range(violations) <=> actions[i] \in Range(deniedActions))

\* The allow list pins a@1; the same action observed unpinned and pinned to
\* another version is rejected, observed as a@1 it is accepted.
C7_Witness ==
    /\ Checked /\ ~RepoExcluded /\ policyMode = "allow"
    /\ PinnedEntryFor(<<"a">>, allowedActions)
    /\ NoUnpinnedEntryFor(<<"a">>, allowedActions)
    /\ \E i, j \in 1..Len(actions) :
          /\ actions[i] = <<"a">> /\ actions[j] = <<"a", "@", "2">>
    /\ violations = actions

\* C8 as claimed: a policy with policyMode allow and an empty allowedActions
\* returns every observed action as a violation, for any repository name.
C8_EmptyAllowListRejectsAll ==
    (Checked /\ policy.PolicyMode = "allow" /\ policy.AllowedActions = <<>>
       /\ actions # <<>>) =>
        violations = actions

\* The custom rule of the repository, if any, sets no mode other than m and
\* has nothing in the list named by field.
CustomRuleKeeps(m, field) ==
    HasCustomRule => (CustomRule.PolicyMode \in {"", m} /\ CustomRule[field] = <<>>)

\* C8 amended: ... for any repository name that is not in excludedRepos and
\* whose custom rule, if any, sets no policyMode other than allow and no
\* allowedActions.
C8_EmptyAllowListRejectsAllUnlessOverridden ==
    (Checked /\ policy.PolicyMode = "allow" /\ policy.AllowedActions = <<>>
       /\ actions # <<>>
       /\ ~RepoExcluded /\ CustomRuleKeeps("allow", "AllowedActions")) =>
        violations = actions

\* Global allow mode with an empty list, a custom rule that only lists denied
\* actions, two observed references: both are violations.
C8_Witness ==
    /\ Checked /\ policy.PolicyMode = "allow" /\ policy.AllowedActions = <<>>
    /\ ~RepoExcluded /\ HasCustomRule /\ CustomRuleKeeps("allow", "AllowedActions")
    /\ CustomRule.DeniedActions # <<>>
    /\ Len(actions) = 2 /\ violations = actions

\* C9 as claimed: a policy with policyMode deny and an empty deniedActions
\* returns no violations, for any repository name and observed list.
C9_EmptyDenyListRejectsNothing ==
    (Checked /\ policy.PolicyMode = "deny" /\ policy.DeniedActions = <<>>) =>
        violations = <<>>

\* C9 amended: ... for any repository name whose custom rule, if any, sets
\* no policyMode other than deny and no deniedActions.
C9_EmptyDenyListRejectsNothingUnlessOverridden ==
    (Checked /\ policy.PolicyMode = "deny" /\ policy.DeniedActions = <<>>
       /\ CustomRuleKeeps("deny", "DeniedActions")) =>
        violations = <<>>

\* Global deny mode with an empty list, a custom rule that only lists allowed
\* actions, observed references outside that list: no violation.
C9_Witness ==
    /\ Checked /\ policy.PolicyMode = "deny" /\ policy.DeniedActions = <<>>
    /\ ~RepoExcluded /\ HasCustomRule /\ CustomRuleKeeps("deny", "DeniedActions")
    /\ CustomRule.AllowedActions = <<<<"a">>>>
    /\ actions = << <<"b">>, <<"a", "@", "1">> >>
    /\ violations = <<>> /\ compliant

\* LoadPolicyConfig has returned a PolicyConfig.
Loaded == pc = "loaded"

\* The document has key with a non-empty value.
Populated(field) == configFile.doc[field] \notin {Absent, Present(<<>>)}

\* C10: LoadPolicyConfig keeps a policy_mode that the document writes, and
\* for a blank or absent one sets allow if allowed_actions is non-empty,
\* else deny if denied_actions is non-empty, else allow; the loaded
\* policyMode is never empty.
C10_LoadedPolicyMode ==
    Loaded =>
        /\ err = ""
        /\ policy.PolicyMode =
             IF configFile.doc.policy_mode \notin {Absent, Present("")}
             THEN configFile.doc.policy_mode[1]
             ELSE IF Populated("allowed_actions") THEN "allow"
             ELSE IF Populated("denied_actions") THEN "deny"
             ELSE "allow"
        /\ policy.PolicyMode # ""

\* A document without policy_mode and without allowed_actions whose
\* denied_actions is populated loads as deny.
C10_Witness ==
    /\ Loaded
    /\ configFile.doc.policy_mode = Absent
    /\ configFile.doc.allowed_actions = Absent
    /\ Populated("denied_actions")
    /\ policy.PolicyMode = "deny"

------------------------------------------------------------------------------
(* C11..C14: MergeRepoPolicy.                                              *)

\* MergeRepoPolicy has returned a merged policy.
Merged == pc \in {"merged", "remerged"}

\* The override document of the merge.
OverrideDoc == repoPolicyContent.doc

\* The document has key with a non-empty value.
OverridePopulated(field) == OverrideDoc[field] \notin {Absent, Present(<<>>)}

\* The override document has a custom rule keyed by the repository.
OverrideHasRule ==
    /\ OverrideDoc.custom_rules # Absent
    /\ repoName \in DOMAIN OverrideDoc.custom_rules[1]

\* The override document has a non-empty top-level list.
OverrideHasLists ==
    OverridePopulated("allowed_actions") \/ OverridePopulated("denied_actions")

\* The value a key of the override document gives a list field.
OverrideList(field) == IF OverrideDoc[field] = Absent THEN <<>> ELSE OverrideDoc[field][1]

\* C11: the merged policy differs from the global one at most in
\* customRules[repoName]: mode, both lists and excludedRepos are the global
\* ones and every other repository has the custom rule it had, or none.
C11_MergeChangesOnlyRepoRule ==
    Merged =>
        /\ merged.PolicyMode = policy.PolicyMode
        /\ merged.AllowedActions = policy.AllowedActions
        /\ merged.DeniedActions = policy.DeniedActions
        /\ merged.ExcludedRepos = policy.ExcludedRepos
        /\ (DOMAIN merged.CustomRules) \ {repoName} = (DOMAIN policy.CustomRules) \ {repoName}
        /\ \A r \in (DOMAIN policy.CustomRules) \ {repoName} :
               merged.CustomRules[r] = policy.CustomRules[r]

\* An override that sets a top-level mode, excluded_repos, lists and rules
\* for both repositories, merged into a global policy with other values and
\* no rule for the other repository.
C11_Witness ==
    /\ Merged /\ repoName = CustomRepo
    /\ OverrideDoc.policy_mode = Present("deny") /\ policy.PolicyMode = "allow"
    /\ OverrideDoc.excluded_repos # Absent /\ policy.ExcludedRepos = <<>>
    /\ OverrideHasLists
    /\ OverrideDoc.custom_rules # Absent
    /\ OtherRepo \in DOMAIN OverrideDoc.custom_rules[1]
    /\ OtherRepo \notin DOMAIN policy.CustomRules
    /\ merged # policy

\* C12: when the override document has a custom rule keyed by repoName, the
\* merged rule for repoName is that rule as a whole; nothing of a previous
\* global entry or of the top-level keys of the document goes into it.
C12_OverrideRuleReplaces ==
    (Merged /\ OverrideHasRule) =>
        /\ repoName \in DOMAIN merged.CustomRules
        /\ merged.CustomRules[repoName] = OverrideDoc.custom_rules[1][repoName]

\* An override rule without mode and lists replaces a global entry that had
\* them, while the document also sets top-level lists and a mode.
C12_Witness ==
    /\ Merged /\ OverrideHasRule /\ OverrideHasLists
    /\ OverrideDoc.policy_mode = Present("deny")
    /\ repoName \in DOMAIN policy.CustomRules
    /\ policy.CustomRules[repoName].PolicyMode = "deny"
    /\ merged.CustomRules[repoName] =
         [AllowedActions |-> <<>>, DeniedActions |-> <<>>, PolicyMode |-> ""]

\* C13: when the override document has no custom rule for repoName and a
\* non-empty top-level list, the merged rule for repoName holds exactly the
\* two top-level lists and its mode is the policy_mode the document writes,
\* else allow if allowed_actions is non-empty, else deny.
C13_FlatOverrideRule ==
    (Merged /\ ~OverrideHasRule /\ OverrideHasLists) =>
        /\ repoName \in DOMAIN merged.CustomRules
        /\ merged.CustomRules[repoName] =
             [AllowedActions |-> OverrideList("allowed_actions"),
              DeniedActions |-> OverrideList("denied_actions"),
              PolicyMode |->
                 IF OverrideDoc.policy_mode \notin {Absent, Present("")}
                 THEN OverrideDoc.policy_mode[1]
                 ELSE IF OverridePopulated("allowed_actions") THEN "allow"
                 ELSE "deny"]

\* A flat override with only denied_actions and no mode, merged into an
\* allow-mode global policy that has an entry for the repository: the rule is
\* a deny rule.
C13_Witness ==
    /\ Merged /\ ~OverrideHasRule
    /\ OverrideDoc.policy_mode = Absent
    /\ ~OverridePopulated("allowed_actions") /\ OverridePopulated("denied_actions")
    /\ policy.PolicyMode = "allow"
    /\ repoName \in DOMAIN policy.CustomRules
    /\ merged.CustomRules[repoName].PolicyMode = "deny"
    /\ merged.CustomRules[repoName].DeniedActions = OverrideDoc.denied_actions[1]

\* Observed lists of at most one reference.
SingleObserved == SeqsUpTo(ActionRefs, 1)

\* C14: merging the same override document for the same repository into the
\* merged policy gives the merged policy again, and both give the same
\* CheckActionCompliance result for the repository.
C14_MergeIdempotent ==
    (pc = "remerged") =>
        /\ remerged = merged
        /\ \A obs \in SingleObserved :
               complianceResult(remerged, repoName, obs) =
                   complianceResult(merged, repoName, obs)

\* A flat override merged twice into a global policy that already had a rule
\* with lists for the repository.
C14_Witness ==
    /\ pc = "remerged" /\ ~OverrideHasRule /\ OverrideHasLists
    /\ repoName \in DOMAIN policy.CustomRules
    /\ policy.CustomRules[repoName].AllowedActions # <<>>
    /\ merged # policy
    /\ remerged = merged

------------------------------------------------------------------------------
(* C15..C17: the enforce and export commands.                              *)

\* The process has exited.
Exited == pc = "exited"

\* Some repository has one or more recorded violations.
SomeViolation == \E r \in DOMAIN violationsMap : Len(violationsMap[r]) > 0

\* C15 as claimed: enforce exits non-zero exactly when at least one
\* repository has one or more violations.
C15_ExitsNonZeroIffViolations ==
    Exited => (exitCode # 0 <=> SomeViolation)

\* The content the policy of the run is loaded from.
PolicySource ==
    IF policyContent # NoContent /\ ignoreLocalPolicy THEN policyContent ELSE configFile

\* The run cannot get to checking repositories: no token, no target, no
\* loadable policy, a single repository that is malformed or cannot be
\* fetched, or an organization that cannot be listed.
SetupFails ==
    \/ githubToken = ""
    \/ organization = "" /\ repository = <<>>
    \/ PolicySource \in {NoFile, Malformed}
    \/ repository # <<>> /\ repository \notin RepoNames
    \/ repository \in RepoNames /\ workflows[repository].err
    \/ repository = <<>> /\ listing.err

\* C15: enforce exits non-zero exactly when a fatal error ended the run
\* before the repositories were checked or at least one repository has one
\* or more violations; the fatal errors are those of the setup, so a failed
\* fetch or an unparsable override of one repository of an organization
\* does not by itself give a non-zero exit.
C15_ExitsNonZeroIffViolationsOrFatal ==
    Exited =>
        /\ exitCode # 0 <=> (fatal # "" \/ SomeViolation)
        /\ fatal # "" <=> SetupFails
        /\ DOMAIN violationsMap # {} <=> SomeViolation

\* An organization run in which the fetch of one repository failed, the
\* override of the other one does not parse, and that one has a violation.
C15_Witness ==
    /\ Exited /\ fatal = "" /\ exitCode = 1
    /\ repository = <<>>
    /\ listing.repos = <<CustomRepo, OtherRepo>>
    /\ workflows[CustomRepo].err
    /\ ~ignoreLocalPolicy /\ repoFiles[OtherRepo].content = Malformed
    /\ DOMAIN violationsMap = {OtherRepo}

\* C16: with supplied policy content and ignore-local-policy set, the
\* policy file path is not read, no override is fetched or merged, and the
\* policy every repository is checked against is the one loaded from the
\* supplied content.
C16_SuppliedPolicyReplaces ==
    (policyContent # NoContent /\ ignoreLocalPolicy) =>
        /\ ~policyFileRead
        /\ contentFetched = {}
        /\ mergedRepos = {}
        /\ \A r \in DOMAIN appliedPolicy :
             appliedPolicy[r] = setDefaultPolicyMode(yamlUnmarshal(policyContent.doc))

\* Both repositories of an organization were checked against the supplied
\* policy although a different policy file and override documents exist.
C16_Witness ==
    /\ Exited /\ fatal = ""
    /\ policyContent \notin {NoContent, Malformed} /\ ignoreLocalPolicy
    /\ configFile \notin {NoFile, Malformed, policyContent}
    /\ DOMAIN appliedPolicy = RepoNames
    /\ \A r \in RepoNames : repoFiles[r].content \notin {EmptyContent, Malformed}
    /\ DOMAIN violationsMap = {OtherRepo}

\* The exporter was given a mode other than 'allow' and 'deny'.
InvalidMode == exporter.PolicyMode \notin {"allow", "deny"}

\* C17: for a mode other than allow and deny GeneratePolicyFromActions
\* returns an error and no policy, and the export command ends with a fatal
\* error having fetched no repository and written no file.
C17_InvalidModeRejected ==
    InvalidMode =>
        /\ pc \in {"generate", "failed", "export", "exited"}
        /\ policyConfig = NoPolicy
        /\ outputFile = NoFile
        /\ fetched = {}
        /\ pc = "failed" => err = "invalid policy mode"
        /\ Exited => exitCode = 1 /\ fatal # ""
        /\ (Exited /\ githubToken # "" /\ (organization # "" \/ repository # <<>>)) =>
             fatal = "Invalid policy mode"

\* An export of an organization with actions to a writable path, rejected
\* for its mode.
C17_Witness ==
    /\ Exited /\ fatal = "Invalid policy mode"
    /\ exporter.PolicyMode = "audit"
    /\ repository = <<>> /\ ~listing.err
    /\ \A r \in RepoNames : Len(workflows[r].actions) > 0
    /\ outputWritable

------------------------------------------------------------------------------
(* C18..C20: the exporter.                                                 *)

\* GeneratePolicyFromActions has returned a policy.
Generated == policyConfig # NoPolicy

\* Every 'uses' reference of every repository of actionsMap.
UsesOf(repos) == UNION { Range(actionsMap[r]) : r \in repos }

\* ref without its version suffix: everything before its last '@'.
StripVersion(ref) ==
    IF HasAt(ref)
    THEN LET k == CHOOSE i \in 1..Len(ref) :
                      /\ ref[i] = "@"
                      /\ \A j \in (i + 1)..Len(ref) : ref[j] # "@"
         IN  [i \in 1..(k - 1) |-> ref[i]]
    ELSE ref

\* The normalized references of the given repositories.
NormalizedUses(repos) ==
    { IF exporter.IncludeVersions THEN u ELSE StripVersion(u) : u \in UsesOf(repos) }

\* s comes before t in lexicographic (byte) order.
LexBefore(s, t) ==
    \E k \in 1..Len(t) :
        /\ \A j \in 1..(k - 1) : j <= Len(s) /\ s[j] = t[j]
        /\ \/ k = Len(s) + 1
           \/ k <= Len(s) /\ byteOf(s[k]) < byteOf(t[k])

\* list enumerates the set S in increasing order, each element once.
IsSortedListOf(list, S) ==
    /\ Range(list) = S
    /\ \A i, j \in 1..Len(list) : i < j => LexBefore(list[i], list[j])

\* C18: the generated policy has the requested mode; the field of that mode
\* holds the sorted, duplicate-free list of the normalized references of all
\* repositories and the field of the other mode is empty.
C18_GeneratedGlobalList ==
    Generated =>
        /\ policyConfig.PolicyMode = exporter.PolicyMode
        /\ exporter.PolicyMode \in {"allow", "deny"}
        /\ exporter.PolicyMode = "allow" =>
             /\ IsSortedListOf(policyConfig.AllowedActions, NormalizedUses(DOMAIN actionsMap))
             /\ policyConfig.DeniedActions = <<>>
        /\ exporter.PolicyMode = "deny" =>
             /\ IsSortedListOf(policyConfig.DeniedActions, NormalizedUses(DOMAIN actionsMap))
             /\ policyConfig.AllowedActions = <<>>

\* Deny mode without versions; two repositories use the same action in
\* different versions and a further action, listed out of order.
C18_Witness ==
    /\ Generated /\ exporter.PolicyMode = "deny" /\ ~exporter.IncludeVersions
    /\ DOMAIN actionsMap = RepoNames
    /\ actionsMap[CustomRepo] = << <<"b">>, <<"a", "@", "1">> >>
    /\ actionsMap[OtherRepo] = << <<"a", "@", "2">> >>
    /\ policyConfig.DeniedActions = << <<"a">>, <<"b">> >>

\* C19 as claimed: with includeCustom every repository of actionsMap gets a
\* custom rule with the requested mode whose list of that mode is the
\* sorted, duplicate-free list of the repository's own normalized
\* references and whose other list is empty.
C19_CustomRulePerRepository ==
    (Generated /\ exporter.IncludeCustom) =>
        /\ DOMAIN policyConfig.CustomRules = DOMAIN actionsMap
        /\ \A r \in DOMAIN actionsMap :
             LET rule == policyConfig.CustomRules[r]
             IN  /\ rule.PolicyMode = exporter.PolicyMode
                 /\ exporter.PolicyMode = "allow" =>
                      /\ IsSortedListOf(rule.AllowedActions, NormalizedUses({r}))
                      /\ rule.DeniedActions = <<>>
                 /\ exporter.PolicyMode = "deny" =>
                      /\ IsSortedListOf(rule.DeniedActions, NormalizedUses({r}))
                      /\ rule.AllowedActions = <<>>

\* The written file has been loaded again.
Reloaded == pc = "reloaded"

------------------------------------------------------------------------------
(* C21: an override document without anything for the repository.         *)

\* C21: when the override document has neither a custom rule keyed by
\* repoName nor a non-empty top-level list, the merged policy equals the
\* global policy and CheckActionCompliance gives the same result for
\* repoName with either.
C21_UnusedOverrideKeepsGlobal ==
    (Merged /\ ~OverrideHasRule /\ ~OverrideHasLists) =>
        /\ merged = policy
        /\ \A observed \in SingleObserved :
               complianceResult(merged, repoName, observed)
                   = complianceResult(policy, repoName, observed)

\* An override that sets only a mode, excluded_repos and a rule for the
\* other repository, merged into a policy with another mode and a rule for
\* this repository.
C21_Witness ==
    /\ pc = "merged" /\ repoName = CustomRepo
    /\ OverrideDoc.policy_mode = Present("deny")
    /\ OverrideDoc.excluded_repos # Absent
    /\ OverrideDoc.custom_rules # Absent
    /\ DOMAIN OverrideDoc.custom_rules[1] = {OtherRepo}
    /\ OverrideDoc.allowed_actions = Present(<<>>)
    /\ OverrideDoc.denied_actions = Absent
    /\ policy.PolicyMode = "allow"
    /\ policy.ExcludedRepos = <<>>
    /\ DOMAIN policy.CustomRules = {CustomRepo}

------------------------------------------------------------------------------
(* C22, C23, C27: the loop of runEnforce.                                  *)

\* The loop of runEnforce has visited the repository.
Visited(r) == r \in DOMAIN appliedPolicy

\* The run went through the whole loop and exited.
LoopCompleted == Exited /\ fatal = ""

\* The violations map holds for r what result says: its violations when it
\* is not compliant, no entry when it is.
RecordedAs(r, result) ==
    IF result.compliant
    THEN r \notin DOMAIN violationsMap
    ELSE r \in DOMAIN violationsMap /\ violationsMap[r] = result.violations

\* The override file of r is fetched and does not parse.
MalformedOverride(r) ==
    ~ignoreLocalPolicy /\ ~repoFiles[r].err /\ repoFiles[r].content = Malformed

\* The override file of r is looked for and is not there.
AbsentOverride(r) ==
    ~ignoreLocalPolicy /\ (repoFiles[r].err \/ repoFiles[r].content = EmptyContent)

\* C22: MergeRepoPolicy returns an error and no policy for an override that
\* does not parse; runEnforce then checks the repository against the
\* unmerged policy, records its violations, and visits every repository of
\* the run.
C22_MalformedOverrideFallsBack ==
    /\ (pc \in {"failed", "merged", "remerged"} /\ repoPolicyContent = Malformed) =>
           /\ pc = "failed"
           /\ merged = NoPolicy
           /\ err = "failed to parse repository policy"
    /\ \A r \in DOMAIN appliedPolicy :
           MalformedOverride(r) =>
               /\ r \in mergedRepos
               /\ appliedPolicy[r] = policy
               /\ RecordedAs(r, complianceResult(policy, r, actionsMap[r]))
               /\ fatal = ""
    /\ LoopCompleted => DOMAIN appliedPolicy = DOMAIN actionsMap

\* An organization run: the override of one repository does not parse and
\* that repository has a violation; the other one was checked too.
C22_Witness ==
    /\ LoopCompleted
    /\ DOMAIN appliedPolicy = RepoNames
    /\ MalformedOverride(CustomRepo)
    /\ CustomRepo \in DOMAIN violationsMap
    /\ repoFiles[OtherRepo].content \notin {EmptyContent, Malformed}

\* C23: a repository whose override file is not found (an error or empty
\* content) is visited and checked against the unmerged policy; nothing is
\* merged and no error ends the run.
C23_AbsentOverrideIsNoOverride ==
    /\ \A r \in DOMAIN appliedPolicy :
           AbsentOverride(r) =>
               /\ r \in contentFetched
               /\ r \notin mergedRepos
               /\ appliedPolicy[r] = policy
               /\ RecordedAs(r, complianceResult(policy, r, actionsMap[r]))
               /\ fatal = "" /\ err = ""
    /\ LoopCompleted => \A r \in DOMAIN actionsMap : Visited(r)

\* An organization run in which the fetch of one override reports an error
\* and the other returns empty content; one of the two has a violation.
C23_Witness ==
    /\ LoopCompleted /\ ~ignoreLocalPolicy
    /\ DOMAIN appliedPolicy = RepoNames
    /\ repoFiles[CustomRepo].err
    /\ ~repoFiles[OtherRepo].err /\ repoFiles[OtherRepo].content = EmptyContent
    /\ DOMAIN violationsMap = {OtherRepo}

\* The policy r is to be checked against: the loaded policy merged with
\* the override document of r when one was fetched and parses, else the
\* loaded policy.
ExpectedPolicy(r) ==
    IF /\ ~ignoreLocalPolicy
       /\ ~repoFiles[r].err
       /\ repoFiles[r].content \notin {EmptyContent, Malformed}
    THEN mergedPolicy(policy, yamlUnmarshal(repoFiles[r].content.doc), r)
    ELSE policy

\* C27: at every point of the loop, in whatever order it runs, what is
\* recorded for a visited repository is CheckActionCompliance of the
\* repository's own expected policy and actions, only visited repositories
\* have entries, and the loaded policy is the one loaded before the loop.
C27_RepositoriesIndependent ==
    /\ \A r \in DOMAIN appliedPolicy :
           /\ appliedPolicy[r] = ExpectedPolicy(r)
           /\ RecordedAs(r, complianceResult(ExpectedPolicy(r), r, actionsMap[r]))
    /\ DOMAIN violationsMap \subseteq DOMAIN appliedPolicy
    /\ (pc = "enforce_loop" \/ LoopCompleted) =>
           policy = setDefaultPolicyMode(yamlUnmarshal(PolicySource.doc))

\* The loop is half way: one repository, with an override of its own, has
\* been visited and has its violation, the other one is still to come.
C27_Witness ==
    /\ pc = "enforce_loop"
    /\ pending = {CustomRepo}
    /\ DOMAIN appliedPolicy = {OtherRepo}
    /\ appliedPolicy[OtherRepo] # policy
    /\ DOMAIN violationsMap = {OtherRepo}
    /\ ~repoFiles[CustomRepo].err
    /\ repoFiles[CustomRepo].content \notin {EmptyContent, Malformed}

------------------------------------------------------------------------------
(* C24: ActionsForOrg.                                                     *)

\* name has the form owner/repo: exactly one '/'.
OwnerRepo(name) == Cardinality({ i \in 1..Len(name) : name[i] = "/" }) = 1

\* The listed repositories of that form whose actions could be fetched.
Collectable ==
    { name \in Range(listing.repos) : OwnerRepo(name) /\ ~workflows[name].err }

\* C24: ActionsForOrg fails only when the listing fails; otherwise its
\* result has exactly the listed owner/repo names whose fetch succeeded as
\* keys, each once and mapped to its own fetched actions, and no error.
C24_ActionsForOrgIsolatesFailures ==
    /\ pc \in {"collected", "failed"} => (pc = "failed" <=> listing.err)
    /\ pc = "collected" =>
           /\ err = ""
           /\ DOMAIN actionsMap = Collectable
           /\ \A name \in Collectable : actionsMap[name] = workflows[name].actions
           /\ fetched = { name \in Range(listing.repos) : OwnerRepo(name) }

\* A listing that starts with a repository whose fetch fails, goes on with a
\* malformed name and ends with a repository that has actions.
C24_Witness ==
    /\ pc = "collected"
    /\ listing.repos = <<CustomRepo, MalformedRepo, OtherRepo>>
    /\ workflows[CustomRepo].err
    /\ DOMAIN actionsMap = {OtherRepo}
    /\ Len(actionsMap[OtherRepo]) = 2

------------------------------------------------------------------------------
(* C25: the validation of the configuration by the commands.               *)

\* The configuration has no token, or neither organization nor repository.
MissingConfig == githubToken = "" \/ (organization = "" /\ repository = <<>>)

\* C25: a report, enforce or export run without a token or without a
\* target does nothing but exit with status 1: no policy is loaded, no
\* repository is listed, no workflow or override is fetched, no policy is
\* generated and no file is written.
C25_MissingConfigIsFatalFirst ==
    MissingConfig =>
        /\ pc \in {"report", "enforce", "export", "exited"}
        /\ Exited => /\ exitCode = 1
                     /\ fatal \in {"GitHub token not provided",
                                   "Either organization or specific repository must be provided"}
        /\ ~policyFileRead /\ policy = NoPolicy
        /\ ~listed /\ fetched = {} /\ contentFetched = {}
        /\ policyConfig = NoPolicy /\ outputFile = NoFile

\* An enforce run without a target that has a token, supplied policy
\* content and a policy file.
C25_Witness ==
    /\ Exited
    /\ githubToken = "t" /\ organization = "" /\ repository = <<>>
    /\ policyContent \notin {NoContent, Malformed} /\ ignoreLocalPolicy
    /\ configFile \notin {NoFile, Malformed}
    /\ ~listing.err

------------------------------------------------------------------------------
(* C26: the list of the other mode.                                        *)

\* The mode CheckActionCompliance checks repo in under policy p.
EffectiveMode(p, repo) ==
    LET ap == applicablePolicy(p, repo)
    IN  defaultMode(ap.policyMode, ap.allowedActions, ap.deniedActions)

\* The field holding the list of the mode that is not mode.
OtherList(mode) == IF mode = "allow" THEN "DeniedActions" ELSE "AllowedActions"

\* The policies that differ from p at most in the lists of the other mode,
\* of the policy itself and of its custom rules.
OtherListVariants(p, mode) ==
    { [p EXCEPT ![OtherList(mode)] = global,
                !.CustomRules = [k \in DOMAIN @ |-> [@[k] EXCEPT ![OtherList(mode)] = custom]]] :
        global \in ActionLists, custom \in ActionLists }

\* C26: a policy that resolves to the same allow or deny mode for the
\* repository and differs from the checked one only in lists of the other
\* mode gives the same violations and the same verdict.
C26_OtherListIgnored ==
    (Checked /\ policyMode \in {"allow", "deny"}) =>
        \A q \in OtherListVariants(policy, policyMode) :
            EffectiveMode(q, repoName) = policyMode =>
                complianceResult(q, repoName, actions)
                    = [violations |-> violations, compliant |-> compliant]

\* An allow-mode check with a violation, of a policy whose denied lists
\* are, at both levels, not those of some variant naming the observed action.
C26_Witness ==
    /\ Checked /\ policyMode = "allow" /\ HasCustomRule
    /\ policy.DeniedActions = <<>> /\ CustomRule.DeniedActions = <<>>
    /\ CustomRule.AllowedActions = << <<"a">> >>
    /\ actions = << <<"b">> >>
    /\ violations = << <<"b">> >>

------------------------------------------------------------------------------
(* C28: export followed by enforce.                                        *)

\* C28 as claimed: the allow-mode policy generated from actionsMap, checked
\* against the references of any repository of actionsMap, yields no
\* violations.
C28_ExportedPolicyIsBaseline ==
    (Checked /\ Generated /\ exporter.PolicyMode = "allow") =>
        violations = <<>> /\ compliant

\* No reference of actionsMap has more than one '@'.
SingleAtOnly ==
    \A u \in UsesOf(DOMAIN actionsMap) : Cardinality({ i \in 1..Len(u) : u[i] = "@" }) <= 1

\* The claim restricted to references with at most one '@', where the two
\* ways of stripping the version agree.
SingleAtExportedPolicyIsBaseline ==
    (Checked /\ Generated /\ exporter.PolicyMode = "allow" /\ SingleAtOnly) =>
        violations = <<>> /\ compliant

------------------------------------------------------------------------------
(* C29: policy modes other than allow and deny.                            *)

\* The mode a document sets, or "" when it sets none.
DocumentMode(doc) == IF doc.policy_mode = Absent THEN "" ELSE doc.policy_mode[1]

\* C29: LoadPolicyConfig keeps whatever non-empty policy_mode the document
\* has and MergeRepoPolicy takes the modes of the global policy and of the
\* override as they are, both without an error; a check whose effective mode
\* is neither allow nor deny reports no violations for a repository that is
\* not excluded.
C29_ModeNeverValidated ==
    /\ (pc \in {"loaded", "failed"} /\ configFile \notin {NoFile, Malformed}) =>
           /\ pc = "loaded" /\ err = ""
           /\ DocumentMode(configFile.doc) # "" =>
                  policy.PolicyMode = DocumentMode(configFile.doc)
    /\ (pc \in {"merged", "remerged", "failed"} /\ repoPolicyContent # Malformed) =>
           /\ pc # "failed" /\ err = ""
           /\ merged.PolicyMode = policy.PolicyMode
           /\ OverrideHasRule =>
                  merged.CustomRules[repoName].PolicyMode
                      = OverrideDoc.custom_rules[1][repoName].PolicyMode
           /\ (~OverrideHasRule /\ OverrideHasLists /\ DocumentMode(OverrideDoc) # "") =>
                  merged.CustomRules[repoName].PolicyMode = DocumentMode(OverrideDoc)
    /\ (Checked /\ ~RepoExcluded /\ policyMode \notin {"allow", "deny"}) =>
           violations = <<>> /\ compliant

\* A check in mode "audit" of two actions, one of them on both lists of the
\* policy and the other on neither.
C29_Witness ==
    /\ Checked /\ ~RepoExcluded /\ ~HasCustomRule
    /\ policy.PolicyMode = "audit" /\ policyMode = "audit"
    /\ policy.AllowedActions = << <<"a">> >>
    /\ policy.DeniedActions = << <<"a">> >>
    /\ actions = << <<"a">>, <<"b">> >>
    /\ violations = <<>> /\ compliant

------------------------------------------------------------------------------
(* C30: a custom rule that sets nothing.                                   *)

\* The custom rule of the repository sets neither a mode nor a list.
EmptyCustomRule ==
    /\ HasCustomRule
    /\ CustomRule = [AllowedActions |-> <<>>, DeniedActions |-> <<>>, PolicyMode |-> ""]

\* The checked policy without the custom rule of the repository.
WithoutCustomRule ==
    [policy EXCEPT !.CustomRules = [k \in (DOMAIN @) \ {repoName} |-> @[k]]]

\* C30 as claimed: with an empty custom rule for the repository the check
\* returns the violations it returns for the policy without that rule.
C30_EmptyRuleIsNoRule ==
    (Checked /\ EmptyCustomRule) =>
        violations = complianceResult(WithoutCustomRule, repoName, actions).violations

\* The claim restricted to policies that set a global mode.
EmptyRuleIsNoRuleUnderSetMode ==
    (Checked /\ EmptyCustomRule /\ policy.PolicyMode # "") =>
        violations = complianceResult(WithoutCustomRule, repoName, actions).violations

====
